---- MODULE Spec2Model ----
(***************************************************************************)
(* Model of the API client (retry, 401 handling, response cache, token     *)
(* store), of the polling loops of the analysis and image services, of     *)
(* AuthProvider, and of the services that keep favorites, history and the  *)
(* activity log in local storage.                                          *)
(*                                                                         *)
(* SpecPoll  : one pollAnalysisResult / pollOCRResult invocation.          *)
(* SpecApi   : the ApiClient serving requests: retry, errors, tokens.      *)
(* SpecCache : the ApiClient serving requests: response cache and clock.   *)
(* SpecVerbs : get, post, put, delete and uploadFile over the cache.        *)
(* SpecTok   : the token store with its awaits (AsyncStorage calls).       *)
(* SpecAuth  : AuthProvider over AuthService and the token store.          *)
(* SpecLink  : a polling loop whose polls go through the ApiClient.        *)
(* SpecScreen: the polling loop run by the analysis screen.                *)
(* SpecKeys  : cached GETs whose parameters come in either order.          *)
(* SpecUpload: uploadImage and uploadFile with their local checks.         *)
(* SpecSession: token operations between cached GETs.                      *)
(* SpecLearn : toggleFavorite and addToHistory over local storage.         *)
(* SpecStartup: AuthProvider from mount, with calls overlapping initAuth.  *)
(* SpecSettles: SpecStartup with every await resolving.                    *)
(* SpecAnalytics: recordActivity and syncActivities over local storage.    *)
(***************************************************************************)
EXTENDS Integers, Sequences, FiniteSets, TLC

(***************************************************************************)
(* Bounds of the model.                                                    *)
(***************************************************************************)
MaxPollAttempts == 3
MaxRequests == 2
MaxTicks == 2
MaxAuthCalls == 3
MaxLinkedAttempts == 2
MaxLocalCalls == 2

(***************************************************************************)
(* JavaScript values.  undefined (an absent optional field) is a value of  *)
(* its own; an absent numeric progress is NoProgress.                      *)
(***************************************************************************)
Undefined == "undefined"
NoProgress == 0 - 1

(***************************************************************************)
(* Polling loops: services/analysis.ts, services/image.ts                  *)
(***************************************************************************)
Services == {"analysis", "ocr"}

\* Snapshots a poll may resolve with (QuestionAnalysisStatusResponse /
\* OCRResultResponse: progress, result and error are optional).
Snapshots ==
    [kind : {"ok"}, status : {"processing"}, progress : {NoProgress, 0, 50},
     result : {Undefined}, error : {Undefined}]
    \cup
    [kind : {"ok"}, status : {"completed"}, progress : {NoProgress, 50},
     result : {Undefined, "R1"}, error : {Undefined}]
    \cup
    [kind : {"ok"}, status : {"failed"}, progress : {NoProgress},
     result : {Undefined}, error : {Undefined, "", "E1"}]

\* A poll that throws: getAnalysisResult / getOCRResult rethrow as Error(message).
PollThrows ==
    [kind : {"throw"}, status : {Undefined}, progress : {NoProgress},
     result : {Undefined}, error : {"net"}]

Intervals == {100, 2000}

TimeoutMessage == "poll-timeout"
DefaultFailure(s) == IF s = "analysis" THEN "analysis-failed" ELSE "ocr-failed"

VARIABLES
    svc,          \* which loop runs: pollAnalysisResult or pollOCRResult
    maxAttempts,  \* argument maxAttempts
    interval,     \* argument interval (ms)
    hasOnUpdate,  \* whether the optional onUpdate callback was passed
    attempts,     \* local variable attempts
    pc,           \* position of the loop: loop, polling, waiting, done
    polls,        \* outcomes of the poll calls that have settled, in order
    pollCalls,    \* number of poll calls issued
    updates,      \* the onUpdate invocations, in order
    waits,        \* the interval waits started, in order
    outcome       \* how the invocation settled

pollVars == <<svc, maxAttempts, interval, hasOnUpdate, attempts, pc, polls,
              pollCalls, updates, waits, outcome>>

VARIABLES
    authToken,    \* ApiClient.authToken (memory)
    storedToken,  \* the AsyncStorage item TOKEN_STORAGE_KEY
    cache,        \* ApiClient.cache: a map from cache key to {data, timestamp}
    now,          \* Date.now()
    apiPc,        \* idle, inflight, backoff, settled (the promise has just settled)
    req,          \* the logical request being served, with its axios config
    log,          \* the transport attempts of the logical request, as they ended
    delays,       \* the backoff delays of the logical request, in order
    result,       \* how the logical request settled
    lastOp,       \* the last ApiClient method called
    requests,     \* logical requests started
    ticks         \* clock advances made between calls

apiVars == <<authToken, storedToken, cache, now, apiPc, req, log, delays, result,
             lastOp, requests, ticks>>

VARIABLES
    tasks,            \* pending asynchronous operations (AsyncStorage calls in
                      \* the order they were issued, requests in flight)
    overlap,          \* whether a call started while another one was pending
    authCalls,        \* calls started
    isAuthenticated,  \* AuthContext state: isAuthenticated
    user,             \* AuthContext state: user
    isLoading,        \* AuthContext state: isLoading
    isAuthenticating, \* AuthContext state: isAuthenticating
    authError         \* AuthContext state: error

authVars == <<tasks, overlap, authCalls, isAuthenticated, user, isLoading,
              isAuthenticating, authError>>

VARIABLES
    pollStart,        \* Date.now() when the poll in progress was issued
    sentByPolls,      \* transport requests made by the polls that have settled
    abandoned         \* whether the caller has stopped awaiting the invocation

linkVars == <<pollStart, sentByPolls, abandoned>>

VARIABLES
    returned          \* what the AuthContext function that settled last returned

retVars == <<returned>>

VARIABLES
    useMock,          \* API_CONFIG.USE_MOCK_DATA
    wall,             \* Date.now() as the services over local storage read it
    favoriteIds,      \* the AsyncStorage item STORAGE_KEYS.FAVORITES, parsed
    history,          \* the AsyncStorage item STORAGE_KEYS.HISTORY, parsed
    activities,       \* the AsyncStorage item STORAGE_KEYS.ANALYTICS_DATA, parsed
    lastSync,         \* the AsyncStorage item STORAGE_KEYS.LAST_SYNC: NoItem or a string
    call,             \* the service call in progress, with its local variables
    localCalls        \* service calls started

localVars == <<useMock, wall, favoriteIds, history, activities, lastSync, call,
               localCalls>>

NoOutcome == [kind |-> "none", value |-> Undefined]
Returned(v) == [kind |-> "returned", value |-> v]
Threw(m) == [kind |-> "threw", value |-> m]

\* Off-by-one loop condition.
LoopContinues_Mut(a, m) == a <= m

\* A loop that tests its condition after the body (do ... while).
LoopContinues_DoWhile(a, m) == a = 0 \/ a < m

\* while (attempts < maxAttempts)
LoopContinues(a, m) == a < m

\* An update that passes the attempt number in both loops.
UpdateBeforePoll_Mut(s, a, m) ==
    [attempt |-> a, phase |-> "beforePoll", text |-> "processing",
     num |-> a, den |-> 1]

\* onUpdate('...', attempts / maxAttempts * 100) in pollAnalysisResult,
\* onUpdate('...', attempts) in pollOCRResult; the number is kept as num/den.
UpdateBeforePoll(s, a, m) ==
    [attempt |-> a, phase |-> "beforePoll", text |-> "processing",
     num |-> IF s = "analysis" THEN a * 100 ELSE a,
     den |-> IF s = "analysis" THEN m ELSE 1]

\* Progress test that takes every present number, 0 included, in both loops.
ReportsProgress_Mut(s, snap) == snap.progress # NoProgress

\* if (onUpdate && result.progress): only pollAnalysisResult has it, and a
\* progress of 0 is falsy.
ReportsProgress(s, snap) ==
    s = "analysis" /\ snap.progress # NoProgress /\ snap.progress # 0

UpdateAfterPoll(a, snap) ==
    [attempt |-> a, phase |-> "afterPoll", text |-> "parsing",
     num |-> snap.progress, den |-> 1]

\* result.status === 'completed' && result.result
IsCompleted(snap) == snap.status = "completed" /\ snap.result # Undefined

\* result.status === 'failed'
IsFailed(snap) == snap.status = "failed"

\* result.error || '<default>'
FailureMessage(s, snap) ==
    IF snap.error # Undefined /\ snap.error # "" THEN snap.error
    ELSE DefaultFailure(s)

\* Catch block that gives up one attempt early.
IsLastAttempt_Mut(a, m) == a + 1 >= m

\* catch: if (attempts >= maxAttempts) throw error
IsLastAttempt(a, m) == a >= m

\* A wait after every pending poll, the last one included.
WaitsWhilePending_Mut(a, m) == a <= m

\* try: if (attempts < maxAttempts) await wait(interval)
WaitsWhilePending(a, m) == a < m

\* The catch block of the loop body, entered with an error message.
CatchBlock(msg) ==
    IF IsLastAttempt(attempts, maxAttempts)
    THEN /\ outcome' = Threw(msg)
         /\ pc' = "done"
         /\ waits' = waits
    ELSE /\ outcome' = outcome
         /\ pc' = "waiting"
         /\ waits' = Append(waits, [after |-> attempts, ms |-> interval])

PollInit ==
    /\ svc \in Services
    /\ maxAttempts \in (0 - 1) .. MaxPollAttempts
    /\ interval \in Intervals
    /\ hasOnUpdate \in BOOLEAN
    /\ attempts = 0
    /\ pc = "loop"
    /\ polls = <<>>
    /\ pollCalls = 0
    /\ updates = <<>>
    /\ waits = <<>>
    /\ outcome = NoOutcome

\* Loop head with the condition true: attempts++, onUpdate, the poll is issued.
NextAttemptStep ==
    /\ pc = "loop"
    /\ LoopContinues(attempts, maxAttempts)
    /\ attempts' = attempts + 1
    /\ updates' = IF hasOnUpdate
                  THEN Append(updates, UpdateBeforePoll(svc, attempts + 1, maxAttempts))
                  ELSE updates
    /\ pollCalls' = pollCalls + 1
    /\ pc' = "polling"
    /\ UNCHANGED <<svc, maxAttempts, interval, hasOnUpdate, polls, waits, outcome>>

\* The poll is a call whose transport is not followed.
NextAttempt ==
    /\ NextAttemptStep
    /\ UNCHANGED <<apiVars, authVars, linkVars, localVars, retVars>>

\* Loop head with the condition false: throw new Error(timeout).
LoopExhausted ==
    /\ pc = "loop"
    /\ ~LoopContinues(attempts, maxAttempts)
    /\ outcome' = Threw(TimeoutMessage)
    /\ pc' = "done"
    /\ UNCHANGED <<svc, maxAttempts, interval, hasOnUpdate, attempts, polls,
                   pollCalls, updates, waits>>
    /\ UNCHANGED <<apiVars, authVars, linkVars, localVars, retVars>>

\* The awaited poll resolves with a snapshot; the rest of the try block runs.
PollResolvesStep(snap) ==
    /\ pc = "polling"
    /\ polls' = Append(polls, snap)
    /\ updates' = IF hasOnUpdate /\ ReportsProgress(svc, snap)
                  THEN Append(updates, UpdateAfterPoll(attempts, snap))
                  ELSE updates
    /\ IF IsCompleted(snap)
       THEN /\ outcome' = Returned(snap.result)
            /\ pc' = "done"
            /\ waits' = waits
       ELSE IF IsFailed(snap)
       THEN CatchBlock(FailureMessage(svc, snap))
       ELSE IF WaitsWhilePending(attempts, maxAttempts)
       THEN /\ outcome' = outcome
            /\ pc' = "waiting"
            /\ waits' = Append(waits, [after |-> attempts, ms |-> interval])
       ELSE /\ outcome' = outcome
            /\ pc' = "loop"
            /\ waits' = waits
    /\ UNCHANGED <<svc, maxAttempts, interval, hasOnUpdate, attempts, pollCalls>>

PollResolves(snap) ==
    /\ PollResolvesStep(snap)
    /\ UNCHANGED <<apiVars, authVars, linkVars, localVars, retVars>>

\* The awaited poll rejects; the catch block runs.
PollRejectsStep(err) ==
    /\ pc = "polling"
    /\ polls' = Append(polls, err)
    /\ CatchBlock(err.error)
    /\ UNCHANGED <<svc, maxAttempts, interval, hasOnUpdate, attempts, pollCalls,
                   updates>>

PollRejects(err) ==
    /\ PollRejectsStep(err)
    /\ UNCHANGED <<apiVars, authVars, linkVars, localVars, retVars>>

\* The interval timer fires and the loop goes back to its head.
WaitElapses ==
    /\ pc = "waiting"
    /\ pc' = "loop"
    /\ UNCHANGED <<svc, maxAttempts, interval, hasOnUpdate, attempts, polls,
                   pollCalls, updates, waits, outcome>>
    /\ UNCHANGED <<apiVars, authVars, linkVars, localVars, retVars>>

\* The caller stops awaiting: the analysis screen unmounts or its taskId
\* changes.  The effect has no cleanup and the loop takes no cancellation
\* signal, so nothing of the loop reads this.
Abandon ==
    /\ pc \in {"loop", "polling", "waiting"}
    /\ ~abandoned
    /\ abandoned' = TRUE
    /\ UNCHANGED <<pollStart, sentByPolls>>
    /\ UNCHANGED <<pollVars, apiVars, authVars, localVars, retVars>>

PollNext ==
    \/ NextAttempt
    \/ LoopExhausted
    \/ \E snap \in Snapshots : PollResolves(snap)
    \/ \E err \in PollThrows : PollRejects(err)
    \/ WaitElapses

(***************************************************************************)
(* ApiClient: retry, 401 handling, response cache, token store             *)
(***************************************************************************)
\* JavaScript values a payload can be; the first four are falsy.
JsNull == "null"
JsZero == "0"
JsFalse == "false"
JsEmpty == ""
JsBool(b) == IF b THEN "true" ELSE JsFalse
Falsy == {Undefined, JsNull, JsZero, JsFalse, JsEmpty}
Truthy(v) == v \notin Falsy

Payloads == {JsNull, JsZero, JsFalse, JsEmpty, "P1", "P2"}

NoToken == JsNull
Tokens == {"T1"}

\* Query parameters: absent, or an object given as its name/value pairs in
\* insertion order.  Targets are the (url, params) pairs requests are made to.
NoParams == <<"absent">>
Targets == {<<"/a", NoParams>>, <<"/a", <<>>>>, <<"/a", << <<"x", "1">> >>>>,
            <<"/b", NoParams>>}

\* private cacheTTL = 5 * 60 * 1000
cacheTTL == 5 * 60 * 1000
TickSteps == {1, cacheTTL}

\* config._retryCount < 2
MaxRetries == 2

NetworkFailureMessage == "network-failure"
DefaultRequestFailed == "request-failed"

\* What a transport attempt can end with: an error without a response, an
\* HTTP error response, or a 2xx response; the body's fields are optional.
NoResponse ==
    [out : {"noresponse"}, status : {0}, success : {Undefined}, data : {Undefined},
     message : {Undefined}, error : {Undefined}]
HttpErrors ==
    [out : {"http"}, status : {401, 500}, success : {Undefined},
     data : {Undefined}, message : {Undefined, JsEmpty, "M1"},
     error : {Undefined, "E1"}]
SuccessEnvelopes ==
    [out : {"success"}, status : {200}, success : {"true"},
     data : Payloads \cup {Undefined}, message : {Undefined}, error : {Undefined}]
FailureEnvelopes ==
    [out : {"success"}, status : {200}, success : {JsFalse, Undefined},
     data : {Undefined}, message : {Undefined, "M1"}, error : {Undefined, "E1"}]

\* A 2xx body that is the payload itself (OCRResultResponse and the like: no
\* success or data field; error is a field of the payload where it has one).
DirectBodies ==
    [out : {"success"}, status : {200}, success : {Undefined}, data : {Undefined},
     message : {Undefined}, error : {Undefined, "E1"}, payload : {"P1"}]

IsDirectBody(body) == "payload" \in DOMAIN body

\* getCacheKey: `${url}:${JSON.stringify(params || {})}`; absent parameters
\* become the empty object, and the pairs keep their insertion order.
getCacheKey(url, params) == <<url, IF params = NoParams THEN <<>> ELSE params>>

CacheKeys == {getCacheKey(t[1], t[2]) : t \in Targets}

NoEntry == [found |-> FALSE, expired |-> FALSE, data |-> Undefined]

\* this.cache.get(key) and the expiry test of getFromCache:
\* Date.now() - cached.timestamp > this.cacheTTL
CacheLookup(c, key, t) ==
    IF key \notin DOMAIN c THEN NoEntry
    ELSE [found |-> TRUE, expired |-> t - c[key].timestamp > cacheTTL,
          data |-> c[key].data]

\* What getFromCache returns: null when there is no entry or it has expired.
getFromCache(hit) ==
    IF ~hit.found \/ hit.expired THEN JsNull ELSE hit.data

\* if (cachedData) return cachedData
ReturnsCached(cachedData) == Truthy(cachedData)

\* Deletion that empties the whole map.
CacheDelete_Mut(c, key) == [k \in {} |-> c[k]]

\* this.cache.delete(key)
CacheDelete(c, key) == [k \in DOMAIN c \ {key} |-> c[k]]

\* this.cache.clear()
CacheClear(c) == [k \in {} |-> c[k]]

\* saveToCache: this.cache.set(key, {data, timestamp: Date.now()})
saveToCache(c, key, data, t) ==
    [k \in DOMAIN c \cup {key} |->
        IF k = key THEN [data |-> data, timestamp |-> t] ELSE c[k]]

\* A save that follows every successful GET.
SavesToCache_Mut(method, useCache) == method = "get"

\* get: if (useCache) this.saveToCache(cacheKey, data); post, put, delete and
\* uploadFile have no such statement
SavesToCache(method, useCache) == method = "get" /\ useCache

\* Retry test that treats a 5xx response like a lost connection.
HasResponse_Mut(err) == err.out # "noresponse" /\ err.status < 500

\* if (!error.response): whether the failed attempt received an HTTP response
HasResponse(err) == err.out # "noresponse"

\* Retry test that allows one retry too many.
ShouldRetry_Mut(retryCount) == retryCount <= MaxRetries

\* !config._retryCount || config._retryCount < 2
ShouldRetry(retryCount) == retryCount = 0 \/ retryCount < MaxRetries

\* Backoff that starts at 2000 ms.
RetryDelay_Mut(retryCount) == 1000 * 2 ^ retryCount

\* 1000 * Math.pow(2, config._retryCount - 1)
RetryDelay(retryCount) == 1000 * 2 ^ (retryCount - 1)

\* A count that stops at the first retry.
NextRetryCount_Mut(retryCount) == 1

\* config._retryCount = (config._retryCount || 0) + 1
NextRetryCount(retryCount) == retryCount + 1

\* responseData?.message || responseData?.error || default, and the same
\* expression over the envelope in handleApiResponse
ErrorMessage(body) ==
    IF Truthy(body.message) THEN body.message
    ELSE IF Truthy(body.error) THEN body.error
    ELSE DefaultRequestFailed

\* A 401 handler that forgets the persisted copy.
TokensAfterError_Mut(status, mem, stored) ==
    IF status = 401 THEN <<NoToken, stored>> ELSE <<mem, stored>>

\* if (error.response.status === 401) await this.clearAuthToken(): the
\* memory and the persisted token after the handler
TokensAfterError(status, mem, stored) ==
    IF status = 401 THEN <<NoToken, NoToken>> ELSE <<mem, stored>>

\* API_CONFIG.IMAGE.MAX_FILE_SIZE
MAX_FILE_SIZE == 10 * 1024 * 1024

\* What FileSystem.getInfoAsync can report; a size of 0 stands for an absent
\* or zero size, which is falsy.
FileInfos == [exists : BOOLEAN, size : {0, 1024, MAX_FILE_SIZE, MAX_FILE_SIZE + 1}]

\* API_CONFIG.IMAGE.SUPPORTED_TYPES
SUPPORTED_TYPES == {"jpg", "jpeg", "png", "heic"}

\* Extensions of the image URIs given to uploadImage.
FileTypes == {"png", "gif", "pdf"}

\* ImageService.endpoints.upload
UploadUrl == "/api/image/upload"

UnsupportedTypeMessage == "unsupported-type"
FileMissingMessage == "file-missing"
FileTooLargeMessage == "file-too-large"

\* fileInfo.size && fileInfo.size > API_CONFIG.IMAGE.MAX_FILE_SIZE
FileTooLarge(fileInfo) == fileInfo.size # 0 /\ fileInfo.size > MAX_FILE_SIZE

\* handleApiResponse: data.success && data.data !== undefined
IsSuccessEnvelope(body) == Truthy(body.success) /\ body.data # Undefined

NoResult ==
    [kind |-> "none", value |-> Undefined, status |-> 0 - 1, message |-> Undefined,
     fromCache |-> FALSE]
Success(v, cached) ==
    [kind |-> "ok", value |-> v, status |-> 0 - 1, message |-> Undefined,
     fromCache |-> cached]
\* new ApiError(message, statusCode)
ApiError(msg, status) ==
    [kind |-> "error", value |-> Undefined, status |-> status, message |-> msg,
     fromCache |-> FALSE]

NoRequest ==
    [method |-> Undefined, url |-> Undefined, params |-> NoParams, useCache |-> FALSE,
     retryCount |-> 0, sent |-> 0, sentAt |-> 0, auth |-> NoToken, hit |-> NoEntry]
NoOp == [op |-> "none", key |-> <<>>, existed |-> FALSE, repeated |-> FALSE]

\* The request interceptor: load the persisted token when none is in memory.
TokenAfterInterceptor(mem, stored) == IF mem = NoToken THEN stored ELSE mem

ApiInit ==
    /\ authToken = NoToken
    /\ storedToken \in {NoToken} \cup Tokens
    /\ cache = [k \in {} |-> NoEntry]
    /\ now = 0
    /\ apiPc = "idle"
    /\ req = NoRequest
    /\ log = <<>>
    /\ delays = <<>>
    /\ result = NoResult
    /\ lastOp = NoOp
    /\ requests = 0
    /\ ticks = 0

Idle == apiPc \in {"idle", "settled"}

\* A new call is made: the settled request's config and promise are gone.
Forget ==
    /\ req' = NoRequest
    /\ log' = <<>>
    /\ delays' = <<>>
    /\ result' = NoResult

\* apiClient.get(url, params, useCache) up to its first await: the cache is
\* consulted (an expired entry is deleted on the way) and, unless a cached
\* payload is returned, the request goes through the request interceptor to
\* the transport.
GetStep(url, params, useCache) ==
    /\ Idle
    /\ requests' = requests + 1
    /\ lastOp' = [op |-> "get", key |-> <<>>, existed |-> FALSE, repeated |-> FALSE]
    /\ log' = <<>>
    /\ delays' = <<>>
    /\ LET key == getCacheKey(url, params)
           hit == IF useCache THEN CacheLookup(cache, key, now) ELSE NoEntry
           cachedData == getFromCache(hit)
           tok == TokenAfterInterceptor(authToken, storedToken)
       IN  /\ cache' = IF hit.found /\ hit.expired THEN CacheDelete(cache, key)
                       ELSE cache
           /\ IF useCache /\ ReturnsCached(cachedData)
              THEN /\ result' = Success(cachedData, TRUE)
                   /\ apiPc' = "settled"
                   /\ req' = [method |-> "get", url |-> url, params |-> params,
                              useCache |-> useCache, retryCount |-> 0, sent |-> 0,
                              sentAt |-> now, auth |-> NoToken, hit |-> hit]
                   /\ authToken' = authToken
              ELSE /\ result' = NoResult
                   /\ apiPc' = "inflight"
                   /\ req' = [method |-> "get", url |-> url, params |-> params,
                              useCache |-> useCache, retryCount |-> 0, sent |-> 1,
                              sentAt |-> now, auth |-> tok, hit |-> hit]
                   /\ authToken' = tok
    /\ UNCHANGED <<storedToken, now, ticks>>

\* A get made by a caller that is not followed.
Get(url, params, useCache) ==
    /\ requests < MaxRequests
    /\ GetStep(url, params, useCache)
    /\ UNCHANGED <<pollVars, authVars, linkVars, localVars, retVars>>

\* post(url, data), put(url, data) and delete(url) up to their await: the
\* request goes through the request interceptor to the transport.
SendVerb(method, url) ==
    /\ Idle
    /\ requests < MaxRequests
    /\ requests' = requests + 1
    /\ lastOp' = [op |-> method, key |-> <<>>, existed |-> FALSE, repeated |-> FALSE]
    /\ log' = <<>>
    /\ delays' = <<>>
    /\ result' = NoResult
    /\ apiPc' = "inflight"
    /\ authToken' = TokenAfterInterceptor(authToken, storedToken)
    /\ req' = [method |-> method, url |-> url, params |-> NoParams,
               useCache |-> FALSE, retryCount |-> 0, sent |-> 1, sentAt |-> now,
               auth |-> TokenAfterInterceptor(authToken, storedToken),
               hit |-> NoEntry]
    /\ UNCHANGED <<storedToken, cache, now, ticks>>
    /\ UNCHANGED <<pollVars, authVars, linkVars, localVars, retVars>>

Post(url) == SendVerb("post", url)

Put(url) == SendVerb("put", url)

Delete(url) == SendVerb("delete", url)

\* uploadFile up to the transport: FileSystem.getInfoAsync(fileUri), the two
\* checks, then this.instance.post(url, formData, config).
UploadFileStep(op, url, fileInfo) ==
    /\ Idle
    /\ requests < MaxRequests
    /\ requests' = requests + 1
    /\ lastOp' = [op |-> op, key |-> <<>>, existed |-> FALSE, repeated |-> FALSE]
    /\ log' = <<>>
    /\ delays' = <<>>
    /\ IF ~fileInfo.exists
       THEN /\ result' = ApiError(FileMissingMessage, 400)
            /\ apiPc' = "settled"
            /\ authToken' = authToken
            /\ req' = [method |-> "upload", url |-> url, params |-> NoParams,
                       useCache |-> FALSE, retryCount |-> 0, sent |-> 0,
                       sentAt |-> now, auth |-> NoToken, hit |-> NoEntry]
       ELSE IF FileTooLarge(fileInfo)
       THEN /\ result' = ApiError(FileTooLargeMessage, 400)
            /\ apiPc' = "settled"
            /\ authToken' = authToken
            /\ req' = [method |-> "upload", url |-> url, params |-> NoParams,
                       useCache |-> FALSE, retryCount |-> 0, sent |-> 0,
                       sentAt |-> now, auth |-> NoToken, hit |-> NoEntry]
       ELSE /\ result' = NoResult
            /\ apiPc' = "inflight"
            /\ authToken' = TokenAfterInterceptor(authToken, storedToken)
            /\ req' = [method |-> "upload", url |-> url, params |-> NoParams,
                       useCache |-> FALSE, retryCount |-> 0, sent |-> 1,
                       sentAt |-> now,
                       auth |-> TokenAfterInterceptor(authToken, storedToken),
                       hit |-> NoEntry]
    /\ UNCHANGED <<storedToken, cache, now, ticks>>

\* An uploadFile made by a caller that is not followed.
UploadFile(url, fileInfo) ==
    /\ UploadFileStep("uploadFile", url, fileInfo)
    /\ UNCHANGED <<pollVars, authVars, linkVars, localVars, retVars>>

\* An extension test that lets every image type of the MIME switch through.
IsSupportedType_Mut(fileType) == fileType \in SUPPORTED_TYPES \cup {"gif"}

\* API_CONFIG.IMAGE.SUPPORTED_TYPES.includes(fileType)
IsSupportedType(fileType) == fileType \in SUPPORTED_TYPES

\* new Error(message): an error without status code
PlainError(msg) == ApiError(msg, 0 - 1)

\* ImageService.uploadImage (USE_MOCK_DATA off) up to the transport:
\* FileSystem.getInfoAsync(imageUri) and the existence check, the extension
\* check, then apiClient.uploadFile, which asks for the file's info again.
UploadImage(fileType, imageExists, fileInfo) ==
    IF ~imageExists \/ ~IsSupportedType(fileType)
    THEN /\ Idle
         /\ requests < MaxRequests
         /\ requests' = requests + 1
         /\ lastOp' = [op |-> "uploadImage", key |-> <<>>, existed |-> FALSE,
                       repeated |-> FALSE]
         /\ log' = <<>>
         /\ delays' = <<>>
         /\ result' = PlainError(IF ~imageExists THEN FileMissingMessage
                                 ELSE UnsupportedTypeMessage)
         /\ apiPc' = "settled"
         /\ req' = [method |-> "upload", url |-> UploadUrl, params |-> NoParams,
                    useCache |-> FALSE, retryCount |-> 0, sent |-> 0,
                    sentAt |-> now, auth |-> NoToken, hit |-> NoEntry]
         /\ UNCHANGED <<authToken, storedToken, cache, now, ticks>>
         /\ UNCHANGED <<pollVars, authVars, linkVars, localVars, retVars>>
    ELSE /\ UploadFileStep("uploadImage", UploadUrl, fileInfo)
         /\ UNCHANGED <<pollVars, authVars, linkVars, localVars, retVars>>

\* uploadImage's catch block: an ApiError thrown by uploadFile is rethrown as
\* new Error(error.message).
UploadImageRethrows ==
    /\ apiPc = "settled"
    /\ lastOp.op = "uploadImage"
    /\ result.kind = "error"
    /\ result # PlainError(result.message)
    /\ result' = PlainError(result.message)
    /\ UNCHANGED <<authToken, storedToken, cache, now, apiPc, req, log, delays,
                   lastOp, requests, ticks>>
    /\ UNCHANGED <<pollVars, authVars, linkVars, localVars, retVars>>

\* The response interceptor's error handler: a transport attempt failed,
\* without a response or with an HTTP error status.
TransportFails(err) ==
    /\ apiPc = "inflight"
    /\ log' = Append(log, [out |-> err.out, status |-> err.status,
                           auth |-> req.auth, body |-> err])
    /\ IF ~HasResponse(err)
       THEN IF ShouldRetry(req.retryCount)
            THEN /\ req' = [req EXCEPT !.retryCount = NextRetryCount(@)]
                 /\ delays' = Append(delays, RetryDelay(NextRetryCount(req.retryCount)))
                 /\ apiPc' = "backoff"
                 /\ UNCHANGED <<result, authToken, storedToken>>
            ELSE /\ result' = ApiError(NetworkFailureMessage, 0)
                 /\ apiPc' = "settled"
                 /\ UNCHANGED <<req, delays, authToken, storedToken>>
       ELSE /\ authToken' = TokensAfterError(err.status, authToken, storedToken)[1]
            /\ storedToken' = TokensAfterError(err.status, authToken, storedToken)[2]
            /\ result' = ApiError(ErrorMessage(err), err.status)
            /\ apiPc' = "settled"
            /\ UNCHANGED <<req, delays>>
    /\ UNCHANGED <<cache, now, lastOp, requests, ticks>>
    /\ UNCHANGED <<pollVars, authVars, linkVars, localVars, retVars>>

\* The backoff timer fires: this.instance(config) sends the request again,
\* through the request interceptor.
BackoffElapses ==
    /\ apiPc = "backoff"
    /\ now' = now + delays[Len(delays)]
    /\ authToken' = TokenAfterInterceptor(authToken, storedToken)
    /\ req' = [req EXCEPT !.sent = @ + 1,
                          !.sentAt = now + delays[Len(delays)],
                          !.auth = TokenAfterInterceptor(authToken, storedToken)]
    /\ apiPc' = "inflight"
    /\ UNCHANGED <<storedToken, cache, log, delays, result, lastOp, requests, ticks>>
    /\ UNCHANGED <<pollVars, authVars, linkVars, localVars, retVars>>

\* A 2xx response arrives: handleApiResponse, then saveToCache for a
\* cacheable GET.
TransportSucceeds(body) ==
    /\ apiPc = "inflight"
    /\ log' = Append(log, [out |-> body.out, status |-> body.status,
                           auth |-> req.auth, body |-> body])
    /\ IF IsSuccessEnvelope(body)
       THEN /\ result' = Success(body.data, FALSE)
            /\ cache' = IF SavesToCache(req.method, req.useCache)
                        THEN saveToCache(cache, getCacheKey(req.url, req.params),
                                         body.data, now)
                        ELSE cache
       ELSE /\ result' = ApiError(ErrorMessage(body), body.status)
            /\ cache' = cache
    /\ apiPc' = "settled"
    /\ UNCHANGED <<authToken, storedToken, now, req, delays, lastOp, requests, ticks>>
    /\ UNCHANGED <<pollVars, authVars, linkVars, localVars, retVars>>

\* invalidateCache(url, params)
InvalidateCache(url, params) ==
    /\ Idle
    /\ apiPc' = "idle"
    /\ lastOp' = [op |-> "invalidate", key |-> getCacheKey(url, params),
                  existed |-> getCacheKey(url, params) \in DOMAIN cache,
                  repeated |-> FALSE]
    /\ cache' = CacheDelete(cache, getCacheKey(url, params))
    /\ Forget
    /\ UNCHANGED <<authToken, storedToken, now, requests, ticks>>
    /\ UNCHANGED <<pollVars, authVars, linkVars, localVars, retVars>>

\* clearCache()
ClearCache ==
    /\ Idle
    /\ apiPc' = "idle"
    /\ lastOp' = [op |-> "clear", key |-> <<>>, existed |-> DOMAIN cache # {},
                  repeated |-> FALSE]
    /\ cache' = CacheClear(cache)
    /\ Forget
    /\ UNCHANGED <<authToken, storedToken, now, requests, ticks>>
    /\ UNCHANGED <<pollVars, authVars, linkVars, localVars, retVars>>

\* setAuthToken(token), called while no request is in flight
SetAuthToken(token) ==
    /\ Idle
    /\ apiPc' = "idle"
    /\ lastOp' = [op |-> "setAuthToken", key |-> <<>>, existed |-> FALSE, repeated |-> FALSE]
    /\ authToken' = token
    /\ storedToken' = token
    /\ Forget
    /\ UNCHANGED <<cache, now, requests, ticks>>
    /\ UNCHANGED <<pollVars, authVars, linkVars, localVars, retVars>>

\* clearAuthToken(), called while no request is in flight
ClearAuthToken ==
    /\ Idle
    /\ apiPc' = "idle"
    /\ lastOp' = [op |-> "clearAuthToken", key |-> <<>>, existed |-> FALSE, repeated |-> FALSE]
    /\ authToken' = NoToken
    /\ storedToken' = NoToken
    /\ Forget
    /\ UNCHANGED <<cache, now, requests, ticks>>
    /\ UNCHANGED <<pollVars, authVars, linkVars, localVars, retVars>>

\* Time passes between two calls.
Tick(d) ==
    /\ Idle
    /\ ticks < MaxTicks
    /\ ticks' = ticks + 1
    /\ now' = now + d
    /\ apiPc' = "idle"
    /\ lastOp' = NoOp
    /\ Forget
    /\ UNCHANGED <<authToken, storedToken, cache, requests>>
    /\ UNCHANGED <<pollVars, authVars, linkVars, localVars, retVars>>

\* The environment of SpecApi: every kind of transport failure and envelope;
\* falsy and truthy payloads.
ApiBodies ==
    {b \in SuccessEnvelopes : b.data \in {Undefined, JsFalse, JsEmpty, "P1"}}
    \cup FailureEnvelopes \cup DirectBodies

ApiNext ==
    \/ \E t \in Targets, useCache \in BOOLEAN : Get(t[1], t[2], useCache)
    \/ \E err \in NoResponse \cup HttpErrors : TransportFails(err)
    \/ BackoffElapses
    \/ \E body \in ApiBodies : TransportSucceeds(body)
    \/ \E t \in Tokens : SetAuthToken(t)
    \/ ClearAuthToken

\* The environment of SpecCache: falsy and truthy payloads, the clock and the
\* cache maintenance calls; one HTTP error.
CacheBodies == {b \in SuccessEnvelopes : b.data \in {Undefined, JsNull, JsZero, "P1", "P2"}}

CacheErrors == {e \in HttpErrors : e.status = 500 /\ e.message = "M1"
                                   /\ e.error = Undefined}

CacheNext ==
    \/ \E t \in Targets, useCache \in BOOLEAN : Get(t[1], t[2], useCache)
    \/ \E err \in CacheErrors : TransportFails(err)
    \/ \E body \in CacheBodies : TransportSucceeds(body)
    \/ \E t \in Targets : InvalidateCache(t[1], t[2])
    \/ ClearCache
    \/ \E d \in TickSteps : Tick(d)

\* The environment of SpecVerbs: every request method against a cache that
\* fills and ages; one HTTP error.
VerbBodies == {b \in SuccessEnvelopes : b.data \in {Undefined, "P1", "P2"}}

VerbUrls == {"/a", "/b"}

VerbsNext ==
    \/ \E t \in Targets, useCache \in BOOLEAN : Get(t[1], t[2], useCache)
    \/ \E url \in VerbUrls : Post(url)
    \/ \E url \in VerbUrls : Put(url)
    \/ \E url \in VerbUrls : Delete(url)
    \/ \E url \in VerbUrls, fileInfo \in FileInfos : UploadFile(url, fileInfo)
    \/ \E err \in CacheErrors : TransportFails(err)
    \/ \E body \in VerbBodies : TransportSucceeds(body)
    \/ \E d \in TickSteps : Tick(d)

\* The environment of SpecUpload: files of every kind, and a transport that
\* loses connections, answers with an error or accepts the upload.
UploadBodies == {b \in SuccessEnvelopes : b.data \in {Undefined, "P1"}}

UploadNext ==
    \/ \E url \in VerbUrls, fileInfo \in FileInfos : UploadFile(url, fileInfo)
    \/ \E fileType \in FileTypes, imageExists \in BOOLEAN, fileInfo \in FileInfos :
           UploadImage(fileType, imageExists, fileInfo)
    \/ UploadImageRethrows
    \/ \E err \in NoResponse \cup CacheErrors : TransportFails(err)
    \/ BackoffElapses
    \/ \E body \in UploadBodies : TransportSucceeds(body)

\* The environment of SpecSession: cacheable GETs around logins, logouts and
\* 401 answers; a truthy and a falsy payload.
SessionBodies == {b \in SuccessEnvelopes : b.data \in {JsZero, "P1"}}

SessionErrors == {e \in HttpErrors : e.status = 401 /\ e.message = "M1"
                                     /\ e.error = Undefined}

SessionTokens == {"T1", "T2"}

SessionNext ==
    \/ \E t \in Targets, useCache \in BOOLEAN : Get(t[1], t[2], useCache)
    \/ \E err \in SessionErrors : TransportFails(err)
    \/ \E body \in SessionBodies : TransportSucceeds(body)
    \/ \E t \in SessionTokens : SetAuthToken(t)
    \/ ClearAuthToken
    \/ \E d \in TickSteps : Tick(d)

\* The environment of SpecKeys: cacheable GETs whose parameter objects hold
\* the same pairs in different insertion orders, or differ in a value.
KeyTargets == {<<"/a", NoParams>>, <<"/a", <<>>>>,
               <<"/a", << <<"x", "1">>, <<"y", "2">> >>>>,
               <<"/a", << <<"y", "2">>, <<"x", "1">> >>>>,
               <<"/a", << <<"x", "1">>, <<"y", "3">> >>>>,
               <<"/b", << <<"x", "1">>, <<"y", "2">> >>>>}

KeyBodies == {b \in SuccessEnvelopes : b.data \in {"P1", "P2"}}

KeysNext ==
    \/ \E t \in KeyTargets, useCache \in BOOLEAN : Get(t[1], t[2], useCache)
    \/ \E body \in KeyBodies : TransportSucceeds(body)
    \/ \E d \in TickSteps : Tick(d)

(***************************************************************************)
(* Token store with its awaits: setAuthToken, clearAuthToken and the       *)
(* request interceptor each write the memory copy in JavaScript and reach  *)
(* AsyncStorage through an asynchronous call.  AsyncStorage serves the     *)
(* calls one at a time in the order they were issued, and a caller resumes *)
(* some time after its call was served.                                    *)
(***************************************************************************)
TokenValues == {"T1", "T2"}

\* A pending asynchronous operation: the AuthContext / AuthService function
\* it belongs to ("none" for a direct ApiClient call), the ApiClient step
\* that awaits, and the awaited AsyncStorage call or network request.
Task(caller, step, op, value) ==
    [caller |-> caller, step |-> step, op |-> op, value |-> value,
     state |-> IF op = "net" THEN "inflight" ELSE "queued", got |-> Undefined]

\* setItem that drops the write.
StorageAfter_Mut(op, value, stored) ==
    IF op = "removeItem" THEN NoToken ELSE stored

\* AsyncStorage.setItem(key, token) / removeItem(key) / getItem(key): the
\* item after the call
StorageAfter(op, value, stored) ==
    IF op = "setItem" THEN value
    ELSE IF op = "removeItem" THEN NoToken
    ELSE stored

\* What the call resolves with: getItem gives the item, null when absent.
StorageResult(op, stored) == IF op = "getItem" THEN stored ELSE Undefined

\* hasAuthToken: (await AsyncStorage.getItem(key)) !== null
hasAuthToken(stored) == stored # JsNull

InState(st) == {i \in 1 .. Len(tasks) : tasks[i].state = st}
First(S) == CHOOSE i \in S : \A j \in S : i <= j
Without(seq, i) == SubSeq(seq, 1, i - 1) \o SubSeq(seq, i + 1, Len(seq))

\* setAuthToken(token) up to its await
SetAuthTokenStarts(token) ==
    /\ authCalls < MaxAuthCalls
    /\ authCalls' = authCalls + 1
    /\ overlap' = (overlap \/ tasks # <<>>)
    /\ authToken' = token
    /\ tasks' = Append(tasks, Task("none", "setAuthToken", "setItem", token))
    /\ lastOp' = [op |-> "setAuthToken", key |-> <<token>>, existed |-> FALSE,
                  repeated |-> lastOp.op = "setAuthToken" /\ lastOp.key = <<token>>]
    /\ UNCHANGED <<storedToken, cache, now, apiPc, req, log, delays, result,
                   requests, ticks>>
    /\ UNCHANGED <<isAuthenticated, user, isLoading, isAuthenticating, authError>>
    /\ UNCHANGED <<pollVars, linkVars, localVars, retVars>>

\* clearAuthToken() up to its await, called directly or by the response
\* interceptor on a 401
ClearAuthTokenStarts(step) ==
    /\ authCalls < MaxAuthCalls
    /\ authCalls' = authCalls + 1
    /\ overlap' = (overlap \/ tasks # <<>>)
    /\ authToken' = NoToken
    /\ tasks' = Append(tasks, Task("none", step, "removeItem", NoToken))
    /\ lastOp' = [op |-> "clearAuthToken", key |-> <<>>, existed |-> FALSE, repeated |-> FALSE]
    /\ UNCHANGED <<storedToken, cache, now, apiPc, req, log, delays, result,
                   requests, ticks>>
    /\ UNCHANGED <<isAuthenticated, user, isLoading, isAuthenticating, authError>>
    /\ UNCHANGED <<pollVars, linkVars, localVars, retVars>>

\* The request interceptor of a request made while no token is in memory,
\* up to its await: if (!this.authToken) ... await AsyncStorage.getItem(key)
InterceptorStarts ==
    /\ authCalls < MaxAuthCalls
    /\ authToken = NoToken
    /\ authCalls' = authCalls + 1
    /\ overlap' = (overlap \/ tasks # <<>>)
    /\ tasks' = Append(tasks, Task("none", "interceptor", "getItem", NoToken))
    /\ UNCHANGED apiVars
    /\ UNCHANGED <<isAuthenticated, user, isLoading, isAuthenticating, authError>>
    /\ UNCHANGED <<pollVars, linkVars, localVars, retVars>>

\* AsyncStorage serves the oldest call that is waiting.
StorageApplies ==
    /\ InState("queued") # {}
    /\ LET i == First(InState("queued"))
       IN  /\ storedToken' = StorageAfter(tasks[i].op, tasks[i].value, storedToken)
           /\ tasks' = [tasks EXCEPT ![i].state = "applied",
                                     ![i].got = StorageResult(tasks[i].op, storedToken)]
    /\ UNCHANGED <<authToken, cache, now, apiPc, req, log, delays, result, lastOp,
                   requests, ticks>>
    /\ UNCHANGED <<overlap, authCalls, isAuthenticated, user, isLoading,
                   isAuthenticating, authError>>
    /\ UNCHANGED <<pollVars, linkVars, localVars, retVars>>

\* The caller whose AsyncStorage call was served resumes after its await:
\* the interceptor assigns this.authToken, setAuthToken and clearAuthToken
\* return.
TokenCallResumes ==
    /\ InState("applied") # {}
    /\ LET i == First(InState("applied"))
       IN  /\ tasks[i].caller = "none"
           /\ authToken' = IF tasks[i].step = "interceptor" THEN tasks[i].got
                            ELSE authToken
           /\ tasks' = Without(tasks, i)
    /\ UNCHANGED <<storedToken, cache, now, apiPc, req, log, delays, result, lastOp,
                   requests, ticks>>
    /\ UNCHANGED <<overlap, authCalls, isAuthenticated, user, isLoading,
                   isAuthenticating, authError>>
    /\ UNCHANGED <<pollVars, linkVars, localVars, retVars>>

TokNext ==
    \/ \E t \in TokenValues : SetAuthTokenStarts(t)
    \/ \E c \in {"clearAuthToken", "unauthorized"} : ClearAuthTokenStarts(c)
    \/ InterceptorStarts
    \/ StorageApplies
    \/ TokenCallResumes

(***************************************************************************)
(* AuthProvider (context/AuthContext.tsx) over AuthService                 *)
(* (services/auth.ts) and the token store.  A request of these functions   *)
(* is followed as far as the token store is concerned: the request         *)
(* interceptor, then an answer that is a success, a 401, or another        *)
(* failure (an HTTP error, or no response after the retries).              *)
(***************************************************************************)
LoginTokens == {"T2"}
NoReturn == [caller |-> "none", value |-> Undefined]
Returns(caller, value) == [caller |-> caller, value |-> value]
LoggedInUser == "U1"
CurrentUser == "U0"
UpdatedUser == "U2"
RequestFailedMessage == "E1"
Answers == {"ok", "unauthorized", "error"}

ApiRest == <<cache, now, apiPc, req, log, delays, result, requests, ticks>>

CalledSetAuthToken(token) ==
    [op |-> "setAuthToken", key |-> <<token>>, existed |-> FALSE,
     repeated |-> lastOp.op = "setAuthToken" /\ lastOp.key = <<token>>]
CalledClearAuthToken ==
    [op |-> "clearAuthToken", key |-> <<>>, existed |-> FALSE, repeated |-> FALSE]

\* A request enters the request interceptor: with no token in memory it
\* awaits AsyncStorage.getItem first, otherwise it goes to the transport
\* carrying the token in memory.
RequestTask(caller) ==
    IF authToken = NoToken THEN Task(caller, "interceptor", "getItem", NoToken)
    ELSE Task(caller, "request", "net", authToken)

\* The server under which the app runs: the profile endpoint of initAuth is
\* not served to a request without a token; any request may be refused or
\* may fail.
CanAnswer(t, answer) ==
    (t.caller = "initAuth" /\ answer = "ok") => t.value # NoToken

\* clearAuthToken() up to its await, on behalf of caller
ClearTask(caller, step) == Task(caller, step, "removeItem", NoToken)

\* AuthContext.login / register up to the await of apiClient.post in
\* authService.login / register
LoginStep(caller) ==
    /\ authCalls' = authCalls + 1
    /\ overlap' = (overlap \/ tasks # <<>>)
    /\ isAuthenticating' = TRUE
    /\ authError' = JsNull
    /\ tasks' = Append(tasks, RequestTask(caller))
    /\ UNCHANGED <<isAuthenticated, user, isLoading>>
    /\ UNCHANGED apiVars
    /\ UNCHANGED <<pollVars, linkVars, localVars, retVars>>

Login ==
    /\ authCalls < MaxAuthCalls
    /\ LoginStep("login")

\* AuthContext.logout up to the await in clearAuthToken
LogoutStep ==
    /\ authCalls' = authCalls + 1
    /\ overlap' = (overlap \/ tasks # <<>>)
    /\ isLoading' = TRUE
    /\ authToken' = NoToken
    /\ lastOp' = CalledClearAuthToken
    /\ tasks' = Append(tasks, ClearTask("logout", "clearAuthToken"))
    /\ UNCHANGED <<isAuthenticated, user, isAuthenticating, authError>>
    /\ UNCHANGED <<storedToken, ApiRest>>
    /\ UNCHANGED <<pollVars, linkVars, localVars, retVars>>

Logout ==
    /\ authCalls < MaxAuthCalls
    /\ LogoutStep

\* AuthContext.updateProfile up to the await of apiClient.put in
\* authService.updateProfile
UpdateProfileStep ==
    /\ authCalls' = authCalls + 1
    /\ overlap' = (overlap \/ tasks # <<>>)
    /\ isLoading' = TRUE
    /\ authError' = JsNull
    /\ tasks' = Append(tasks, RequestTask("updateProfile"))
    /\ UNCHANGED <<isAuthenticated, user, isAuthenticating>>
    /\ UNCHANGED apiVars
    /\ UNCHANGED <<pollVars, linkVars, localVars, retVars>>

\* A request of another service (a poll, a history fetch) is made.
FetchStep ==
    /\ authCalls' = authCalls + 1
    /\ overlap' = (overlap \/ tasks # <<>>)
    /\ tasks' = Append(tasks, RequestTask("fetch"))
    /\ UNCHANGED <<isAuthenticated, user, isLoading, isAuthenticating, authError>>
    /\ UNCHANGED apiVars
    /\ UNCHANGED <<pollVars, linkVars, localVars, retVars>>

Fetch ==
    /\ authCalls < MaxAuthCalls
    /\ FetchStep

\* The interceptor of a request resumes after getItem: it assigns
\* this.authToken and the request goes to the transport.
InterceptorResumes ==
    /\ InState("applied") # {}
    /\ LET i == First(InState("applied"))
       IN  /\ tasks[i].caller # "none"
           /\ tasks[i].step = "interceptor"
           /\ authToken' = tasks[i].got
           /\ tasks' = Append(Without(tasks, i),
                              Task(tasks[i].caller, "request", "net", tasks[i].got))
    /\ UNCHANGED <<storedToken, lastOp, ApiRest>>
    /\ UNCHANGED <<overlap, authCalls, isAuthenticated, user, isLoading,
                   isAuthenticating, authError>>
    /\ UNCHANGED <<pollVars, linkVars, localVars, retVars>>

\* A finally block that leaves the flag as it is.
AfterFinally_Mut(flag) == flag

\* finally { setIsLoading(false) } / finally { setIsAuthenticating(false) }
AfterFinally(flag) == FALSE

\* A catch block of initAuth that awaits a read of the token.
InitAuthCatch_Mut == Task("initAuth", "clearAuthToken", "getItem", NoToken)

\* initAuth's catch: await authService.logout(), i.e. clearAuthToken()
InitAuthCatch == ClearTask("initAuth", "clearAuthToken")

\* A request in flight is answered.  A 401 makes the response interceptor
\* call clearAuthToken; otherwise the caller resumes: authService.login /
\* register calls setAuthToken(response.token) or AuthContext.login /
\* register catches the failure; updateProfile takes the updated user or
\* catches the failure; initAuth takes the profile or catches the failure
\* and calls authService.logout.
RequestResponds(answer, token) ==
    \E i \in InState("inflight") :
        LET t == tasks[i]
            rest == Without(tasks, i)
            loginOk == t.caller \in {"login", "register"} /\ answer = "ok"
            loginErr == t.caller \in {"login", "register"} /\ answer = "error"
            updateOk == t.caller = "updateProfile" /\ answer = "ok"
            updateErr == t.caller = "updateProfile" /\ answer = "error"
            initOk == t.caller = "initAuth" /\ answer = "ok"
            initErr == t.caller = "initAuth" /\ answer = "error"
        IN  /\ CanAnswer(t, answer)
            /\ tasks' =
                 IF answer = "unauthorized"
                 THEN Append(rest, ClearTask(t.caller, "unauthorized"))
                 ELSE IF loginOk
                 THEN Append(rest, Task(t.caller, "setAuthToken", "setItem", token))
                 ELSE IF initErr
                 THEN Append(rest, InitAuthCatch)
                 ELSE rest
            /\ authToken' = IF answer = "unauthorized" \/ initErr THEN NoToken
                            ELSE IF loginOk THEN token
                            ELSE authToken
            /\ lastOp' = IF answer = "unauthorized" \/ initErr THEN CalledClearAuthToken
                         ELSE IF loginOk THEN CalledSetAuthToken(token)
                         ELSE lastOp
            /\ authError' = IF loginErr \/ updateErr THEN RequestFailedMessage
                            ELSE authError
            /\ isAuthenticated' = IF loginErr THEN FALSE
                                  ELSE IF initOk THEN TRUE
                                  ELSE isAuthenticated
            /\ isAuthenticating' = IF loginErr THEN AfterFinally(isAuthenticating)
                                   ELSE isAuthenticating
            /\ user' = IF initOk THEN CurrentUser
                       ELSE IF updateOk THEN UpdatedUser
                       ELSE user
            /\ isLoading' = IF initOk \/ updateOk \/ updateErr
                            THEN AfterFinally(isLoading)
                            ELSE isLoading
            /\ returned' = IF loginErr \/ updateErr THEN Returns(t.caller, JsFalse)
                           ELSE IF updateOk THEN Returns(t.caller, "true")
                           ELSE returned
            /\ UNCHANGED <<storedToken, ApiRest>>
            /\ UNCHANGED <<overlap, authCalls>>
            /\ UNCHANGED <<pollVars, linkVars, localVars>>

\* AuthContext.login / register resumes: after setAuthToken it sets the
\* user and isAuthenticated and returns true; after the clear of a 401 it
\* catches the ApiError and returns false.
LoginResumes ==
    /\ InState("applied") # {}
    /\ LET i == First(InState("applied"))
           saved == tasks[i].step = "setAuthToken"
       IN  /\ tasks[i].caller \in {"login", "register"}
           /\ tasks[i].step \in {"setAuthToken", "unauthorized"}
           /\ user' = IF saved THEN LoggedInUser ELSE user
           /\ isAuthenticated' = saved
           /\ authError' = IF saved THEN authError ELSE RequestFailedMessage
           /\ isAuthenticating' = AfterFinally(isAuthenticating)
           /\ returned' = Returns(tasks[i].caller, JsBool(saved))
           /\ tasks' = Without(tasks, i)
    /\ UNCHANGED <<overlap, authCalls, isLoading>>
    /\ UNCHANGED apiVars
    /\ UNCHANGED <<pollVars, linkVars, localVars>>

\* AuthContext.updateProfile resumes after the clear of a 401: it catches
\* the ApiError and returns false.
UpdateProfileResumes ==
    /\ InState("applied") # {}
    /\ LET i == First(InState("applied"))
       IN  /\ tasks[i].caller = "updateProfile"
           /\ tasks[i].step = "unauthorized"
           /\ tasks' = Without(tasks, i)
    /\ authError' = RequestFailedMessage
    /\ isLoading' = AfterFinally(isLoading)
    /\ returned' = Returns("updateProfile", JsFalse)
    /\ UNCHANGED <<overlap, authCalls, isAuthenticated, user, isAuthenticating>>
    /\ UNCHANGED apiVars
    /\ UNCHANGED <<pollVars, linkVars, localVars>>

\* AuthContext.logout resumes after authService.logout.
LogoutResumes ==
    /\ InState("applied") # {}
    /\ LET i == First(InState("applied"))
       IN  /\ tasks[i].caller = "logout"
           /\ tasks' = Without(tasks, i)
    /\ user' = JsNull
    /\ isAuthenticated' = FALSE
    /\ isLoading' = AfterFinally(isLoading)
    /\ returned' = Returns("logout", Undefined)
    /\ UNCHANGED <<overlap, authCalls, isAuthenticating, authError>>
    /\ UNCHANGED apiVars
    /\ UNCHANGED <<pollVars, linkVars, localVars>>

\* The response interceptor of another service's request resumes after the
\* clear of a 401 and rejects with the ApiError; AuthProvider is not told.
FetchResumes ==
    /\ InState("applied") # {}
    /\ LET i == First(InState("applied"))
       IN  /\ tasks[i].caller = "fetch"
           /\ tasks[i].step = "unauthorized"
           /\ tasks' = Without(tasks, i)
    /\ UNCHANGED <<overlap, authCalls, isAuthenticated, user, isLoading,
                   isAuthenticating, authError>>
    /\ UNCHANGED apiVars
    /\ UNCHANGED <<pollVars, linkVars, localVars, retVars>>

\* initAuth resumes: after hasAuthToken it fetches the profile or settles
\* unauthenticated; after the clear of a 401 getCurrentUser calls
\* this.logout() and rethrows; initAuth's catch calls authService.logout()
\* and then settles unauthenticated.
InitAuthResumes ==
    /\ InState("applied") # {}
    /\ LET i == First(InState("applied"))
           t == tasks[i]
           rest == Without(tasks, i)
           hasToken == t.step = "hasAuthToken" /\ hasAuthToken(t.got)
           noToken == t.step = "hasAuthToken" /\ ~hasAuthToken(t.got)
           clears == t.step = "unauthorized" \/ t.caller = "getCurrentUser"
           settles == noToken \/ (t.caller = "initAuth" /\ t.step = "clearAuthToken")
       IN  /\ t.caller \in {"initAuth", "getCurrentUser"}
           /\ t.step \in {"hasAuthToken", "unauthorized", "clearAuthToken"}
           /\ tasks' = IF hasToken THEN Append(rest, RequestTask("initAuth"))
                       ELSE IF t.step = "unauthorized"
                       THEN Append(rest, ClearTask("getCurrentUser", "clearAuthToken"))
                       ELSE IF t.caller = "getCurrentUser"
                       THEN Append(rest, ClearTask("initAuth", "clearAuthToken"))
                       ELSE rest
           /\ authToken' = IF clears THEN NoToken ELSE authToken
           /\ lastOp' = IF clears THEN CalledClearAuthToken ELSE lastOp
           /\ isAuthenticated' = IF settles THEN FALSE ELSE isAuthenticated
           /\ isLoading' = IF settles THEN AfterFinally(isLoading) ELSE isLoading
    /\ UNCHANGED <<storedToken, ApiRest>>
    /\ UNCHANGED <<overlap, authCalls, user, isAuthenticating, authError>>
    /\ UNCHANGED <<pollVars, linkVars, localVars, retVars>>

AuthNext ==
    \/ Login
    \/ Logout
    \/ Fetch
    \/ StorageApplies
    \/ InterceptorResumes
    \/ \E answer \in Answers, token \in LoginTokens : RequestResponds(answer, token)
    \/ LoginResumes
    \/ LogoutResumes
    \/ FetchResumes
    \/ InitAuthResumes

\* The calls of AuthContext made while the app settles.
MaxSettleCalls == 1

LoginCall ==
    /\ authCalls < MaxSettleCalls
    /\ LoginStep("login")

RegisterCall ==
    /\ authCalls < MaxSettleCalls
    /\ LoginStep("register")

LogoutCall ==
    /\ authCalls < MaxSettleCalls
    /\ LogoutStep

UpdateProfileCall ==
    /\ authCalls < MaxSettleCalls
    /\ UpdateProfileStep

FetchCall ==
    /\ authCalls < MaxSettleCalls
    /\ FetchStep

SettleNext ==
    \/ LoginCall
    \/ RegisterCall
    \/ LogoutCall
    \/ UpdateProfileCall
    \/ FetchCall
    \/ StorageApplies
    \/ InterceptorResumes
    \/ \E answer \in Answers, token \in LoginTokens : RequestResponds(answer, token)
    \/ LoginResumes
    \/ LogoutResumes
    \/ UpdateProfileResumes
    \/ FetchResumes
    \/ InitAuthResumes

(***************************************************************************)
(* A polling loop whose polls go through the ApiClient: getAnalysisResult  *)
(* and getOCRResult are apiClient.get(url) and rethrow its ApiError as an  *)
(* Error with the same message.                                            *)
(***************************************************************************)
\* axios.create({ timeout: 30000 })
TransportTimeout == 30000

PollUrl == "/result/t1"

\* The status snapshots the server answers with, by name, and the snapshot
\* each one is.
PollPayloads == {"processing", "completed", "failed"}
SnapshotOf(payload) ==
    [kind |-> "ok", status |-> payload,
     progress |-> IF payload = "processing" THEN 50 ELSE NoProgress,
     result |-> IF payload = "completed" THEN "R1" ELSE Undefined,
     error |-> IF payload = "failed" THEN "E1" ELSE Undefined]

PollBodies ==
    [out : {"success"}, status : {200}, success : {"true"}, data : PollPayloads,
     message : {Undefined}, error : {Undefined}]

\* catch (error) { if (error instanceof ApiError) throw new Error(error.message) }
ThrownBy(res) ==
    [kind |-> "throw", status |-> Undefined, progress |-> NoProgress,
     result |-> Undefined, error |-> res.message]

\* Loop head with the condition true, the poll being apiClient.get(url).
PollSends ==
    /\ NextAttemptStep
    /\ GetStep(PollUrl, NoParams, FALSE)
    /\ pollStart' = now
    /\ UNCHANGED <<sentByPolls, abandoned>>
    /\ UNCHANGED <<authVars, localVars, retVars>>

\* Time passes while a transport attempt is out; axios ends an attempt that
\* has lasted for the timeout.
AttemptTakes(d) ==
    /\ apiPc = "inflight"
    /\ (now + d) - req.sentAt <= TransportTimeout
    /\ now' = now + d
    /\ UNCHANGED <<authToken, storedToken, cache, apiPc, req, log, delays, result,
                   lastOp, requests, ticks>>
    /\ UNCHANGED <<pollVars, authVars, linkVars, localVars, retVars>>

\* The get has settled: the awaited poll resolves with the snapshot or
\* rejects with the error's message.
PollSettles ==
    /\ pc = "polling"
    /\ apiPc = "settled"
    /\ IF result.kind = "ok"
       THEN PollResolvesStep(SnapshotOf(result.value))
       ELSE PollRejectsStep(ThrownBy(result))
    /\ sentByPolls' = sentByPolls + req.sent
    /\ apiPc' = "idle"
    /\ Forget
    /\ UNCHANGED <<authToken, storedToken, cache, now, lastOp, requests, ticks>>
    /\ UNCHANGED <<pollStart, abandoned>>
    /\ UNCHANGED <<authVars, localVars, retVars>>

LinkNext ==
    \/ PollSends
    \/ LoopExhausted
    \/ PollSettles
    \/ WaitElapses
    \/ \E d \in {TransportTimeout} : AttemptTakes(d)
    \/ \E err \in NoResponse \cup CacheErrors : TransportFails(err)
    \/ BackoffElapses
    \/ \E body \in PollBodies : TransportSucceeds(body)

\* The polling loop as the analysis screen runs it.
ScreenNext ==
    \/ PollNext
    \/ Abandon

(***************************************************************************)
(* Services over local storage.  Each call is followed through its awaits: *)
(* the AsyncStorage read, the AsyncStorage write and the request to the     *)
(* server, each of which can succeed or fail.  JSON.stringify / JSON.parse  *)
(* of the stored arrays is kept as the array.                              *)
(***************************************************************************)
NoCall ==
    [op |-> "none", pc |-> "idle", arg |-> 0, flag |-> FALSE, list |-> <<>>,
     since |-> 0, storageSuccess |-> FALSE, posted |-> <<>>, answer |-> "none",
     ret |-> Undefined]

\* What apiClient.post settles with in these services: the payload, or an
\* ApiError with the transport's or the server's message.
PostFailures == {NetworkFailureMessage, "M1", "storage-quota"}
PostAnswers == [ok : {TRUE}, message : {Undefined}]
               \cup [ok : {FALSE}, message : PostFailures]

\* error.message.includes('storage'), over the messages of PostFailures
MentionsStorage(msg) == msg \in {"storage-quota"}

\* return error instanceof Error && error.message.includes('storage')
CatchReturns(storageSuccess, msg) == MentionsStorage(msg)

CallIdle == call.pc \in {"idle", "done"}

StartCall(op, arg, flag) ==
    /\ CallIdle
    /\ localCalls < MaxLocalCalls
    /\ localCalls' = localCalls + 1
    /\ call' = [NoCall EXCEPT !.op = op, !.pc = "reading", !.arg = arg,
                              !.flag = flag]

\* The wall clock between two readings.
ClockSteps == {0, 1}

(***************************************************************************)
(* LearningService: favorites and history (part_004)                       *)
(***************************************************************************)
QuestionIds == {1, 2, 51}

FavoritesUrl == "/api/learning/favorites"

\* if (!favoriteIds.includes(id)) favoriteIds.push(id)
AddFavorite(ids, id) ==
    IF \E i \in DOMAIN ids : ids[i] = id THEN ids ELSE Append(ids, id)

\* index = favoriteIds.indexOf(id); if (index !== -1) favoriteIds.splice(index, 1)
RemoveFavorite(ids, id) ==
    IF \E i \in DOMAIN ids : ids[i] = id
    THEN LET index == CHOOSE i \in DOMAIN ids :
                          ids[i] = id /\ \A j \in 1 .. i - 1 : ids[j] # id
         IN  SubSeq(ids, 1, index - 1) \o SubSeq(ids, index + 1, Len(ids))
    ELSE ids

\* filteredHistory.slice(0, 50)
HistoryLimit == 50

\* slice(0, n)
Slice(seq, n) == SubSeq(seq, 1, IF Len(seq) < n THEN Len(seq) ELSE n)

\* historyItems.sort((a, b) => b.timestamp - a.timestamp): newest first, items
\* of equal timestamp in the order they had.
RECURSIVE InsertByTimestamp(_, _)
InsertByTimestamp(item, sorted) ==
    IF sorted = <<>> THEN <<item>>
    ELSE IF Head(sorted).timestamp <= item.timestamp THEN <<item>> \o sorted
    ELSE <<Head(sorted)>> \o InsertByTimestamp(item, Tail(sorted))

RECURSIVE SortByTimestamp(_)
SortByTimestamp(items) ==
    IF items = <<>> THEN <<>>
    ELSE InsertByTimestamp(Head(items), SortByTimestamp(Tail(items)))

\* historyItems.filter(item => item.questionId !== question.questionId)
WithoutQuestion(items, id) ==
    SelectSeq(items, LAMBDA item : item.questionId # id)

\* A history that keeps one item more than the limit.
NewHistory_Mut(items, id, t) ==
    Slice(<<[questionId |-> id, timestamp |-> t]>> \o WithoutQuestion(items, id),
          HistoryLimit + 1)

\* addToHistory's list: the items without the question, the new item put in
\* front, cut to the limit
NewHistory(items, id, t) ==
    Slice(<<[questionId |-> id, timestamp |-> t]>> \o WithoutQuestion(items, id),
          HistoryLimit)

\* toggleFavorite(request) up to its first await
ToggleFavorite(id, isFavorite) ==
    /\ StartCall("toggleFavorite", id, isFavorite)
    /\ UNCHANGED <<useMock, wall, favoriteIds, history, activities, lastSync>>
    /\ UNCHANGED <<pollVars, apiVars, authVars, linkVars, retVars>>

\* getFavoriteIdsFromStorage resolves (with [] when the read failed), the
\* list is changed, and updateFavoriteIdsInStorage is awaited.
FavoritesRead(readOk) ==
    /\ call.op = "toggleFavorite"
    /\ call.pc = "reading"
    /\ LET ids == IF readOk THEN favoriteIds ELSE <<>>
       IN  call' = [call EXCEPT !.pc = "writing",
                                !.list = IF call.flag THEN AddFavorite(ids, call.arg)
                                         ELSE RemoveFavorite(ids, call.arg)]
    /\ UNCHANGED <<useMock, wall, favoriteIds, history, activities, lastSync,
                   localCalls>>
    /\ UNCHANGED <<pollVars, apiVars, authVars, linkVars, retVars>>

\* updateFavoriteIdsInStorage resolves: true after setItem, false when it
\* threw; with mock data the call returns storageSuccess, otherwise it posts
\* the request to the server.
FavoritesWritten(writeOk) ==
    /\ call.op = "toggleFavorite"
    /\ call.pc = "writing"
    /\ favoriteIds' = IF writeOk THEN call.list ELSE favoriteIds
    /\ call' = IF useMock
               THEN [call EXCEPT !.pc = "done", !.storageSuccess = writeOk,
                                 !.ret = JsBool(writeOk)]
               ELSE [call EXCEPT !.pc = "posting", !.storageSuccess = writeOk,
                                 !.posted = <<[questionId |-> call.arg,
                                               isFavorite |-> call.flag]>>]
    /\ UNCHANGED <<useMock, wall, history, activities, lastSync, localCalls>>
    /\ UNCHANGED <<pollVars, apiVars, authVars, linkVars, retVars>>

\* apiClient.post settles: on success invalidateCache(endpoints.favorites)
\* and return true; on failure the catch block.
FavoritePostSettles(answer) ==
    /\ call.op = "toggleFavorite"
    /\ call.pc = "posting"
    /\ IF answer.ok
       THEN /\ cache' = CacheDelete(cache, getCacheKey(FavoritesUrl, NoParams))
            /\ call' = [call EXCEPT !.pc = "done", !.answer = "ok", !.ret = "true"]
       ELSE /\ cache' = cache
            /\ call' = [call EXCEPT !.pc = "done", !.answer = "failed",
                          !.ret = JsBool(CatchReturns(call.storageSuccess,
                                                      answer.message))]
    /\ UNCHANGED <<authToken, storedToken, now, apiPc, req, log, delays, result,
                   lastOp, requests, ticks>>
    /\ UNCHANGED <<useMock, wall, favoriteIds, history, activities, lastSync,
                   localCalls>>
    /\ UNCHANGED <<pollVars, authVars, linkVars, retVars>>

\* addToHistory(question) up to its first await
AddToHistory(id) ==
    /\ StartCall("addToHistory", id, FALSE)
    /\ UNCHANGED <<useMock, wall, favoriteIds, history, activities, lastSync>>
    /\ UNCHANGED <<pollVars, apiVars, authVars, linkVars, retVars>>

\* getHistoryFromStorage resolves (sorted; [] when the read failed), the new
\* item is stamped with new Date().getTime() and put in front, and
\* updateHistoryInStorage is awaited.
HistoryRead(readOk, d) ==
    /\ call.op = "addToHistory"
    /\ call.pc = "reading"
    /\ wall' = wall + d
    /\ LET historyItems == IF readOk THEN SortByTimestamp(history) ELSE <<>>
       IN  call' = [call EXCEPT !.pc = "writing",
                                !.list = NewHistory(historyItems, call.arg, wall + d)]
    /\ UNCHANGED <<useMock, favoriteIds, history, activities, lastSync, localCalls>>
    /\ UNCHANGED <<pollVars, apiVars, authVars, linkVars, retVars>>

\* updateHistoryInStorage resolves; with mock data the call returns
\* storageSuccess, otherwise it posts the question id to the server.
HistoryWritten(writeOk) ==
    /\ call.op = "addToHistory"
    /\ call.pc = "writing"
    /\ history' = IF writeOk THEN call.list ELSE history
    /\ call' = IF useMock
               THEN [call EXCEPT !.pc = "done", !.storageSuccess = writeOk,
                                 !.ret = JsBool(writeOk)]
               ELSE [call EXCEPT !.pc = "posting", !.storageSuccess = writeOk,
                                 !.posted = <<[questionId |-> call.arg]>>]
    /\ UNCHANGED <<useMock, wall, favoriteIds, activities, lastSync, localCalls>>
    /\ UNCHANGED <<pollVars, apiVars, authVars, linkVars, retVars>>

\* apiClient.post settles: return true, or the catch block.
HistoryPostSettles(answer) ==
    /\ call.op = "addToHistory"
    /\ call.pc = "posting"
    /\ call' = IF answer.ok
               THEN [call EXCEPT !.pc = "done", !.answer = "ok", !.ret = "true"]
               ELSE [call EXCEPT !.pc = "done", !.answer = "failed",
                       !.ret = JsBool(CatchReturns(call.storageSuccess,
                                                   answer.message))]
    /\ UNCHANGED <<useMock, wall, favoriteIds, history, activities, lastSync,
                   localCalls>>
    /\ UNCHANGED <<pollVars, apiVars, authVars, linkVars, retVars>>

LearnNext ==
    \/ \E id \in QuestionIds, isFavorite \in BOOLEAN : ToggleFavorite(id, isFavorite)
    \/ \E readOk \in BOOLEAN : FavoritesRead(readOk)
    \/ \E writeOk \in BOOLEAN : FavoritesWritten(writeOk)
    \/ \E answer \in PostAnswers : FavoritePostSettles(answer)
    \/ \E id \in QuestionIds : AddToHistory(id)
    \/ \E readOk \in BOOLEAN, d \in ClockSteps : HistoryRead(readOk, d)
    \/ \E writeOk \in BOOLEAN : HistoryWritten(writeOk)
    \/ \E answer \in PostAnswers : HistoryPostSettles(answer)

\* A stored history of n questions, as addToHistory leaves it: question n is
\* the newest and comes first.
StoredHistory(n) ==
    [i \in 1 .. n |-> [questionId |-> n + 1 - i, timestamp |-> n + 1 - i]]

(***************************************************************************)
(* AnalyticsService: the activity log and its synchronisation (auth.ts)    *)
(***************************************************************************)
\* AsyncStorage.getItem of a key that was never set resolves with null. A
\* stored string is the sequence of its characters.
NoItem == <<JsNull>>

DigitChars == <<"0", "1", "2", "3", "4", "5", "6", "7", "8", "9">>

IsDigit(c) == \E d \in DOMAIN DigitChars : DigitChars[d] = c

DigitValue(c) == (CHOOSE d \in DOMAIN DigitChars : DigitChars[d] = c) - 1

\* Number.prototype.toString() of a non-negative integer
RECURSIVE DecimalString(_)
DecimalString(n) ==
    IF n < 10 THEN <<DigitChars[n + 1]>>
    ELSE DecimalString(n \div 10) \o <<DigitChars[(n % 10) + 1]>>

\* parseInt of a string that has no digit at its front
NaN == 0 - 1

\* The value of the digits at the front of str, read after the value acc.
RECURSIVE ParseDigits(_, _)
ParseDigits(str, acc) ==
    IF str = <<>> \/ ~IsDigit(Head(str)) THEN acc
    ELSE ParseDigits(Tail(str), 10 * acc + DigitValue(Head(str)))

\* parseInt(str), radix 10
ParseInt(str) ==
    IF str = <<>> \/ ~IsDigit(Head(str)) THEN NaN ELSE ParseDigits(str, 0)

\* lastSyncStr ? parseInt(lastSyncStr) : 0
LastSyncOf(lastSyncStr) ==
    IF lastSyncStr = NoItem \/ lastSyncStr = <<>> THEN 0 ELSE ParseInt(lastSyncStr)

\* A filter that also keeps the activities stamped with the last-sync time.
NewActivities_Mut(list, since) ==
    SelectSeq(list, LAMBDA a : since # NaN /\ a.timestamp >= since)

\* activities.filter(a => a.timestamp > lastSync); no number is greater
\* than NaN.
NewActivities(list, since) ==
    SelectSeq(list, LAMBDA a : since # NaN /\ a.timestamp > since)

\* LearningActivityType
ActivityTypes == {"question_viewed", "question_answered"}

\* recordActivity(activity) up to its first await; the caller stamps the
\* activity with the time of the call.
RecordActivity(type, d) ==
    /\ CallIdle
    /\ localCalls < MaxLocalCalls
    /\ localCalls' = localCalls + 1
    /\ wall' = wall + d
    /\ call' = [NoCall EXCEPT !.op = "recordActivity", !.pc = "reading",
                              !.list = <<[type |-> type, timestamp |-> wall + d]>>]
    /\ UNCHANGED <<useMock, favoriteIds, history, activities, lastSync>>
    /\ UNCHANGED <<pollVars, apiVars, authVars, linkVars, retVars>>

\* getStoredActivities resolves (with [] when the read failed), the activity
\* is pushed, and setItem(ANALYTICS_DATA) is awaited.
RecordRead(readOk) ==
    /\ call.op = "recordActivity"
    /\ call.pc = "reading"
    /\ LET existingData == IF readOk THEN activities ELSE <<>>
       IN  call' = [call EXCEPT !.pc = "writing",
                                !.list = existingData \o call.list]
    /\ UNCHANGED <<useMock, wall, favoriteIds, history, activities, lastSync,
                   localCalls>>
    /\ UNCHANGED <<pollVars, apiVars, authVars, linkVars, retVars>>

\* setItem settles: when it threw, the catch block returns false; with mock
\* data the call returns true; otherwise the activity is posted.
RecordWritten(writeOk) ==
    /\ call.op = "recordActivity"
    /\ call.pc = "writing"
    /\ activities' = IF writeOk THEN call.list ELSE activities
    /\ call' = IF ~writeOk
               THEN [call EXCEPT !.pc = "done", !.ret = JsFalse]
               ELSE IF useMock
               THEN [call EXCEPT !.pc = "done", !.storageSuccess = TRUE,
                                 !.ret = "true"]
               ELSE [call EXCEPT !.pc = "posting", !.storageSuccess = TRUE,
                                 !.posted = <<call.list[Len(call.list)]>>]
    /\ UNCHANGED <<useMock, wall, favoriteIds, history, lastSync, localCalls>>
    /\ UNCHANGED <<pollVars, apiVars, authVars, linkVars, retVars>>

\* apiClient.post(endpoints.activity) settles: return true, or the catch block.
RecordPostSettles(answer) ==
    /\ call.op = "recordActivity"
    /\ call.pc = "posting"
    /\ call' = IF answer.ok
               THEN [call EXCEPT !.pc = "done", !.answer = "ok", !.ret = "true"]
               ELSE [call EXCEPT !.pc = "done", !.answer = "failed",
                                 !.ret = JsFalse]
    /\ UNCHANGED <<useMock, wall, favoriteIds, history, activities, lastSync,
                   localCalls>>
    /\ UNCHANGED <<pollVars, apiVars, authVars, linkVars, retVars>>

\* syncActivities() up to its first await: with mock data
\* setItem(LAST_SYNC, Date.now().toString()), otherwise getStoredActivities().
SyncActivities(d) ==
    /\ CallIdle
    /\ localCalls < MaxLocalCalls
    /\ localCalls' = localCalls + 1
    /\ wall' = wall + d
    /\ call' = IF useMock
               THEN [NoCall EXCEPT !.op = "syncActivities", !.pc = "stamping",
                                   !.since = wall + d]
               ELSE [NoCall EXCEPT !.op = "syncActivities", !.pc = "reading"]
    /\ UNCHANGED <<useMock, favoriteIds, history, activities, lastSync>>
    /\ UNCHANGED <<pollVars, apiVars, authVars, linkVars, retVars>>

\* With mock data the setItem settles: return true, or the rejection leaves
\* the function, which has no try block around it.
MockSyncWritten(writeOk) ==
    /\ call.op = "syncActivities"
    /\ call.pc = "stamping"
    /\ lastSync' = IF writeOk THEN DecimalString(call.since) ELSE lastSync
    /\ call' = [call EXCEPT !.pc = "done",
                            !.ret = IF writeOk THEN "true" ELSE "rejected"]
    /\ UNCHANGED <<useMock, wall, favoriteIds, history, activities, localCalls>>
    /\ UNCHANGED <<pollVars, apiVars, authVars, linkVars, retVars>>

\* getStoredActivities resolves (with [] when the read failed): nothing
\* stored returns true, otherwise getItem(LAST_SYNC) is awaited.
ActivitiesRead(readOk) ==
    /\ call.op = "syncActivities"
    /\ call.pc = "reading"
    /\ LET stored == IF readOk THEN activities ELSE <<>>
       IN  call' = IF stored = <<>>
                   THEN [call EXCEPT !.pc = "done", !.ret = "true"]
                   ELSE [call EXCEPT !.pc = "readingSync", !.list = stored]
    /\ UNCHANGED <<useMock, wall, favoriteIds, history, activities, lastSync,
                   localCalls>>
    /\ UNCHANGED <<pollVars, apiVars, authVars, linkVars, retVars>>

\* getItem(LAST_SYNC) settles: when it threw, the catch block returns false;
\* otherwise the new activities are filtered out, none returns true, and some
\* are posted.
LastSyncRead(readOk) ==
    /\ call.op = "syncActivities"
    /\ call.pc = "readingSync"
    /\ LET since == LastSyncOf(lastSync)
           newActivities == NewActivities(call.list, since)
       IN  call' = IF ~readOk
                   THEN [call EXCEPT !.pc = "done", !.ret = JsFalse]
                   ELSE IF newActivities = <<>>
                   THEN [call EXCEPT !.pc = "done", !.since = since,
                                     !.ret = "true"]
                   ELSE [call EXCEPT !.pc = "posting", !.since = since,
                                     !.posted = newActivities]
    /\ UNCHANGED <<useMock, wall, favoriteIds, history, activities, lastSync,
                   localCalls>>
    /\ UNCHANGED <<pollVars, apiVars, authVars, linkVars, retVars>>

\* apiClient.post(endpoints.sync) settles: on success
\* setItem(LAST_SYNC, Date.now().toString()) is awaited; on failure the catch
\* block returns false.
SyncPostSettles(answer, d) ==
    /\ call.op = "syncActivities"
    /\ call.pc = "posting"
    /\ IF answer.ok
       THEN /\ wall' = wall + d
            /\ call' = [call EXCEPT !.pc = "writing", !.answer = "ok",
                                    !.since = wall + d]
       ELSE /\ wall' = wall
            /\ call' = [call EXCEPT !.pc = "done", !.answer = "failed",
                                    !.ret = JsFalse]
    /\ UNCHANGED <<useMock, favoriteIds, history, activities, lastSync, localCalls>>
    /\ UNCHANGED <<pollVars, apiVars, authVars, linkVars, retVars>>

\* setItem(LAST_SYNC) settles: return true, or the catch block returns false.
LastSyncWritten(writeOk) ==
    /\ call.op = "syncActivities"
    /\ call.pc = "writing"
    /\ lastSync' = IF writeOk THEN DecimalString(call.since) ELSE lastSync
    /\ call' = [call EXCEPT !.pc = "done", !.ret = JsBool(writeOk)]
    /\ UNCHANGED <<useMock, wall, favoriteIds, history, activities, localCalls>>
    /\ UNCHANGED <<pollVars, apiVars, authVars, linkVars, retVars>>

AnalyticsNext ==
    \/ \E type \in ActivityTypes, d \in ClockSteps : RecordActivity(type, d)
    \/ \E readOk \in BOOLEAN : RecordRead(readOk)
    \/ \E writeOk \in BOOLEAN : RecordWritten(writeOk)
    \/ \E answer \in PostAnswers : RecordPostSettles(answer)
    \/ \E d \in ClockSteps : SyncActivities(d)
    \/ \E writeOk \in BOOLEAN : MockSyncWritten(writeOk)
    \/ \E readOk \in BOOLEAN : ActivitiesRead(readOk)
    \/ \E readOk \in BOOLEAN : LastSyncRead(readOk)
    \/ \E answer \in PostAnswers, d \in ClockSteps : SyncPostSettles(answer, d)
    \/ \E writeOk \in BOOLEAN : LastSyncWritten(writeOk)

\* The time of the first call of a run: the next millisecond has one more digit.
FirstCallTime == 9

\* What earlier calls have left in storage: the activity log and the
\* last-sync item.
Viewed(t) == [type |-> "question_viewed", timestamp |-> t]

StoredAnalytics ==
    { <<<<>>, NoItem>>,
      <<<<Viewed(8)>>, NoItem>>,
      <<<<Viewed(8)>>, DecimalString(8)>>,
      <<<<Viewed(8), Viewed(9)>>, DecimalString(8)>>,
      <<<<Viewed(8), Viewed(9)>>, DecimalString(9)>> }

(***************************************************************************)
(* Specifications                                                          *)
(***************************************************************************)
vars == <<pollVars, apiVars, authVars, linkVars, localVars, retVars>>

\* No polling loop is running.
PollIdle ==
    /\ svc = "analysis"
    /\ maxAttempts = 0
    /\ interval = 0
    /\ hasOnUpdate = FALSE
    /\ attempts = 0
    /\ pc = "idle"
    /\ polls = <<>>
    /\ pollCalls = 0
    /\ updates = <<>>
    /\ waits = <<>>
    /\ outcome = NoOutcome

\* The ApiClient is untouched.
ApiIdle ==
    /\ ApiInit
    /\ storedToken = NoToken

\* No AuthProvider is mounted and no token-store call is pending.
AuthIdle ==
    /\ tasks = <<>>
    /\ overlap = FALSE
    /\ authCalls = 0
    /\ isAuthenticated = FALSE
    /\ user = JsNull
    /\ isLoading = FALSE
    /\ isAuthenticating = FALSE
    /\ authError = JsNull

\* No poll of a polling loop has gone through the ApiClient.
LinkIdle ==
    /\ pollStart = 0
    /\ sentByPolls = 0
    /\ abandoned = FALSE

\* No service over local storage has been called.
LocalIdle ==
    /\ useMock = FALSE
    /\ wall = 0
    /\ favoriteIds = <<>>
    /\ history = <<>>
    /\ activities = <<>>
    /\ lastSync = NoItem
    /\ call = NoCall
    /\ localCalls = 0
    /\ returned = NoReturn

\* A polling loop starts; the ApiClient is left alone.
InitPoll == PollInit /\ ApiIdle /\ AuthIdle /\ LinkIdle /\ LocalIdle

\* The ApiClient has been constructed; no polling loop runs.
InitApi == ApiInit /\ PollIdle /\ AuthIdle /\ LinkIdle /\ LocalIdle

SpecPoll == InitPoll /\ [][PollNext]_vars

SpecApi == InitApi /\ [][ApiNext]_vars

SpecCache == InitApi /\ [][CacheNext]_vars

SpecVerbs == InitApi /\ [][VerbsNext]_vars

SpecUpload == InitApi /\ [][UploadNext]_vars

SpecSession == InitApi /\ [][SessionNext]_vars

SpecKeys == InitApi /\ [][KeysNext]_vars

\* LearningService over a local storage that is empty or holds a full history.
InitLearn ==
    /\ ApiIdle
    /\ PollIdle
    /\ AuthIdle
    /\ LinkIdle
    /\ useMock \in BOOLEAN
    /\ wall = HistoryLimit + 1
    /\ favoriteIds \in {<<>>, <<1>>}
    /\ history \in {<<>>, StoredHistory(HistoryLimit)}
    /\ activities = <<>>
    /\ lastSync = NoItem
    /\ call = NoCall
    /\ localCalls = 0
    /\ returned = NoReturn

SpecLearn == InitLearn /\ [][LearnNext]_vars

\* AnalyticsService over a local storage as earlier calls have left it.
InitAnalytics ==
    /\ ApiIdle
    /\ PollIdle
    /\ AuthIdle
    /\ LinkIdle
    /\ useMock \in BOOLEAN
    /\ wall = FirstCallTime
    /\ favoriteIds = <<>>
    /\ history = <<>>
    /\ \E stored \in StoredAnalytics :
           /\ activities = stored[1]
           /\ lastSync = stored[2]
    /\ call = NoCall
    /\ localCalls = 0
    /\ returned = NoReturn

SpecAnalytics == InitAnalytics /\ [][AnalyticsNext]_vars

SpecTok == InitApi /\ [][TokNext]_vars

\* AuthProvider has been mounted: its effect has started initAuth, which
\* awaits authService.isAuthenticated() (hasAuthToken).
InitAuthProvider ==
    /\ ApiInit
    /\ PollIdle
    /\ LinkIdle
    /\ tasks = <<Task("initAuth", "hasAuthToken", "getItem", NoToken)>>
    /\ overlap = FALSE
    /\ authCalls = 0
    /\ isAuthenticated = FALSE
    /\ user = JsNull
    /\ isLoading = TRUE
    /\ isAuthenticating = FALSE
    /\ authError = JsNull
    /\ LocalIdle

SpecAuth == InitAuthProvider /\ [][AuthNext]_vars

\* The app from the mount of AuthProvider on, with the calls made meanwhile.
SpecStartup == InitAuthProvider /\ [][SettleNext]_vars

\* The same, where every AsyncStorage call is served, every request is
\* answered and every function whose await has resolved resumes.
SpecSettles ==
    /\ InitAuthProvider
    /\ [][SettleNext]_vars
    /\ WF_vars(StorageApplies)
    /\ WF_vars(InterceptorResumes)
    /\ WF_vars(\E answer \in Answers, token \in LoginTokens :
                   RequestResponds(answer, token))
    /\ WF_vars(LoginResumes)
    /\ WF_vars(LogoutResumes)
    /\ WF_vars(UpdateProfileResumes)
    /\ WF_vars(FetchResumes)
    /\ WF_vars(InitAuthResumes)

\* A polling loop with onUpdate starts over an idle ApiClient.
InitLink ==
    /\ PollInit
    /\ maxAttempts \in 1 .. MaxLinkedAttempts
    /\ interval = 2000
    /\ hasOnUpdate
    /\ ApiIdle
    /\ AuthIdle
    /\ LinkIdle
    /\ LocalIdle

SpecLink == InitLink /\ [][LinkNext]_vars

\* The analysis screen has mounted: its effect has called
\* pollAnalysisResult(taskId, maxAttempts, interval, callback).
InitScreen ==
    /\ PollInit
    /\ svc = "analysis"
    /\ maxAttempts >= 1
    /\ interval = 2000
    /\ hasOnUpdate
    /\ ApiIdle
    /\ AuthIdle
    /\ LinkIdle
    /\ LocalIdle

SpecScreen == InitScreen /\ [][ScreenNext]_vars

(***************************************************************************)
(* Properties of the polling loops (checked under SpecPoll).               *)
(***************************************************************************)
IsOk(k) == polls[k].kind = "ok"
HasStatus(k, st) == IsOk(k) /\ polls[k].status = st
AllProcessing(n) == \A i \in 1 .. n : HasStatus(i, "processing")
WaitsAfter(k) == {i \in 1 .. Len(waits) : waits[i].after = k}
AttemptsNonDecreasing ==
    \A i \in 1 .. Len(updates) : \A j \in i .. Len(updates) :
        updates[i].attempt <= updates[j].attempt

\* C1: a poll k < maxAttempts that returns status failed stops the loop at
\* once: the call has failed with the server's error text, no poll k+1 has
\* been issued and no interval wait follows poll k.
C1_FailedStopsImmediately ==
    \A k \in 1 .. Len(polls) :
        (HasStatus(k, "failed") /\ k < maxAttempts) =>
            /\ pc = "done"
            /\ outcome.kind = "threw"
            /\ (polls[k].error \notin {Undefined, ""} => outcome.value = polls[k].error)
            /\ pollCalls = k
            /\ WaitsAfter(k) = {}

\* C2: for maxAttempts >= 1, when every poll returns processing the loop
\* issues exactly maxAttempts polls and then fails with the timeout error;
\* before that it has not failed with anything else.
C2_TimeoutAfterMaxAttempts ==
    (maxAttempts >= 1 /\ AllProcessing(Len(polls))) =>
        /\ pollCalls <= maxAttempts
        /\ (pc # "done" => outcome = NoOutcome)
        /\ (pc = "done" => /\ pollCalls = maxAttempts
                           /\ Len(polls) = maxAttempts
                           /\ outcome = Threw(TimeoutMessage))

C2_Witness ==
    /\ pc = "done"
    /\ maxAttempts = 3
    /\ Len(polls) = 3
    /\ AllProcessing(3)
    /\ outcome = Threw(TimeoutMessage)

\* The case of C3: polls 1..k-1 returned processing, poll k returned
\* completed with a result, and onUpdate was passed.
C3_Case(k) ==
    /\ hasOnUpdate
    /\ k = Len(polls)
    /\ k >= 1
    /\ AllProcessing(k - 1)
    /\ HasStatus(k, "completed")
    /\ polls[k].result # Undefined

\* C3 as stated: in that case the result is returned after exactly k polls
\* and onUpdate has been invoked exactly k times, in non-decreasing attempt
\* order.
C3_ExactlyKUpdates ==
    \A k \in 1 .. Len(polls) :
        C3_Case(k) =>
            /\ pc = "done"
            /\ outcome = Returned(polls[k].result)
            /\ pollCalls = k
            /\ Len(updates) = k
            /\ AttemptsNonDecreasing

\* C3 amended: the result is returned after exactly k polls; onUpdate is
\* invoked once per attempt before the poll, and pollAnalysisResult invokes
\* it once more after each poll whose snapshot carries a non-zero progress;
\* all invocations are in non-decreasing attempt order.
C3_UpdatesPerAttempt ==
    \A k \in 1 .. Len(polls) :
        C3_Case(k) =>
            /\ pc = "done"
            /\ outcome = Returned(polls[k].result)
            /\ pollCalls = k
            /\ \A a \in 1 .. k :
                   /\ Cardinality({i \in 1 .. Len(updates) :
                          updates[i].attempt = a /\ updates[i].phase = "beforePoll"}) = 1
                   /\ Cardinality({i \in 1 .. Len(updates) :
                          updates[i].attempt = a /\ updates[i].phase = "afterPoll"})
                      = IF svc = "analysis" /\ polls[a].progress \notin {NoProgress, 0}
                        THEN 1 ELSE 0
            /\ \A i \in 1 .. Len(updates) : updates[i].attempt \in 1 .. k
            /\ (svc = "ocr" => Len(updates) = k)
            /\ AttemptsNonDecreasing

C3_Witness ==
    /\ C3_Case(3)
    /\ svc = "analysis"
    /\ polls[1].progress = 50
    /\ polls[2].progress = 0
    /\ Len(updates) = 4
    /\ outcome = Returned("R1")

\* C4: the loop stops at the first poll whose snapshot has status completed,
\* with or without a result field: no later poll is issued and no interval
\* wait follows it.
C4_CompletedStops ==
    \A k \in 1 .. Len(polls) :
        HasStatus(k, "completed") =>
            /\ pollCalls = k
            /\ WaitsAfter(k) = {}

\* C5: a poll that throws on attempt k < maxAttempts is not propagated: the
\* loop waits one interval and goes on to attempt k+1; a poll that throws on
\* attempt maxAttempts is propagated; every poll, failed or not, uses one
\* attempt.
C5_TransientPollFailure ==
    /\ attempts = pollCalls
    /\ Len(polls) <= pollCalls
    /\ \A k \in 1 .. Len(polls) :
           polls[k].kind = "throw" =>
               /\ (k < maxAttempts =>
                      /\ Cardinality(WaitsAfter(k)) = 1
                      /\ \A i \in WaitsAfter(k) : waits[i].ms = interval
                      /\ (k = Len(polls) =>
                             /\ outcome = NoOutcome
                             /\ \/ pc \in {"waiting", "loop"} /\ attempts = k
                                \/ pc = "polling" /\ attempts = k + 1))
               /\ (k >= maxAttempts =>
                      /\ k = maxAttempts
                      /\ pc = "done"
                      /\ outcome = Threw(polls[k].error)
                      /\ WaitsAfter(k) = {})

C5_Witness ==
    /\ maxAttempts = 3
    /\ Len(polls) = 3
    /\ polls[1].kind = "throw"
    /\ polls[2].kind = "ok"
    /\ polls[3].kind = "throw"
    /\ outcome = Threw("net")
    /\ Len(waits) = 2

UpdatesOf(a, ph) ==
    {i \in 1 .. Len(updates) : updates[i].attempt = a /\ updates[i].phase = ph}

\* C17 as stated: with onUpdate passed, every poll that has returned is
\* followed by an onUpdate invocation of its attempt, and every invocation
\* of attempt n happens after poll n has returned and passes the progress
\* that poll observed.
C17_UpdateAfterEveryPoll ==
    hasOnUpdate =>
        /\ \A i \in 1 .. Len(updates) :
               /\ updates[i].attempt <= Len(polls)
               /\ polls[updates[i].attempt].kind = "ok" =>
                      /\ updates[i].num = polls[updates[i].attempt].progress
                      /\ updates[i].den = 1
        /\ \A k \in 1 .. Len(polls) :
               \E i \in 1 .. Len(updates) : updates[i].attempt = k

\* C17 amended: with onUpdate passed, it is invoked once at the start of
\* every attempt n, before poll n is issued, with a fixed text and a number
\* computed from the attempt counter (n / maxAttempts * 100 in
\* pollAnalysisResult, n in pollOCRResult); pollAnalysisResult invokes it
\* once more after poll n has returned when the snapshot carries a non-zero
\* progress, passing that progress; the status a poll observed is never
\* passed, and without onUpdate nothing is invoked.
C17_UpdateBeforeEveryPoll ==
    /\ ~hasOnUpdate => updates = <<>>
    /\ hasOnUpdate =>
           /\ \A i \in 1 .. Len(updates) : updates[i].attempt \in 1 .. pollCalls
           /\ \A a \in 1 .. pollCalls :
                  /\ Cardinality(UpdatesOf(a, "beforePoll")) = 1
                  /\ \A i \in UpdatesOf(a, "beforePoll") :
                         /\ updates[i].text = "processing"
                         /\ updates[i].num = (IF svc = "analysis" THEN a * 100 ELSE a)
                         /\ updates[i].den = (IF svc = "analysis" THEN maxAttempts ELSE 1)
                         /\ \A j \in UpdatesOf(a, "afterPoll") : i < j
                  /\ Cardinality(UpdatesOf(a, "afterPoll")) =
                         (IF /\ a <= Len(polls)
                             /\ svc = "analysis"
                             /\ polls[a].kind = "ok"
                             /\ polls[a].progress \notin {NoProgress, 0}
                          THEN 1 ELSE 0)
                  /\ \A i \in UpdatesOf(a, "afterPoll") :
                         /\ updates[i].text = "parsing"
                         /\ updates[i].num = polls[a].progress
                         /\ updates[i].den = 1

\* The second attempt of pollAnalysisResult is under way: onUpdate was
\* invoked before poll 1, after poll 1 with its progress, and before poll 2.
C17_Witness ==
    /\ svc = "analysis"
    /\ hasOnUpdate
    /\ maxAttempts = 3
    /\ pc = "polling"
    /\ pollCalls = 2
    /\ Len(polls) = 1
    /\ Len(updates) = 3
    /\ updates[1].phase = "beforePoll"
    /\ updates[2] = UpdateAfterPoll(1, polls[1])
    /\ updates[3].attempt = 2
    /\ updates[3].num = 200

\* C18: every wait lasts exactly the interval; the i-th wait follows the
\* i-th poll and precedes the next one, so nothing is waited before the
\* first poll, and once the invocation has settled after at least one poll
\* the waits number one less than the polls.
C18_WaitsBetweenPolls ==
    /\ \A i \in 1 .. Len(waits) :
           /\ waits[i].ms = interval
           /\ waits[i].after = i
    /\ Len(waits) <= Len(polls)
    /\ (pc = "waiting" => Len(waits) = pollCalls)
    /\ (pc = "polling" => Len(waits) = pollCalls - 1)
    /\ (pollCalls = 0 => waits = <<>>)
    /\ (pc = "done" /\ pollCalls >= 1) => Len(waits) = pollCalls - 1

\* Three polls 100 ms apart: two waits, 200 ms in all.
C18_Witness ==
    /\ pc = "done"
    /\ pollCalls = 3
    /\ interval = 100
    /\ waits = <<[after |-> 1, ms |-> 100], [after |-> 2, ms |-> 100]>>
    /\ outcome = Returned("R1")

(***************************************************************************)
(* Properties of the ApiClient's retry and error handling (SpecApi).       *)
(***************************************************************************)
AllNoResponse == \A i \in 1 .. Len(log) : log[i].out = "noresponse"

\* C6: a logical request whose every transport attempt fails without a
\* response makes exactly 3 attempts, waits 1000 ms before the 2nd and
\* 2000 ms before the 3rd, and fails with status code 0; no request makes
\* more than 3 attempts, and an attempt that gets a response ends the
\* retrying.
C6_RetrySchedule ==
    /\ req.sent <= 3
    /\ Len(log) <= req.sent
    /\ Len(delays) <= 2
    /\ \A i \in 1 .. Len(delays) : delays[i] = IF i = 1 THEN 1000 ELSE 2000
    /\ \A i \in 1 .. Len(log) :
           log[i].out # "noresponse" =>
               i = Len(log) /\ req.sent = i /\ apiPc = "settled"
    /\ (AllNoResponse /\ req.sent >= 1) =>
           IF apiPc = "settled"
           THEN /\ Len(log) = 3
                /\ req.sent = 3
                /\ delays = <<1000, 2000>>
                /\ result.kind = "error"
                /\ result.status = 0
           ELSE /\ result = NoResult
                /\ Len(delays) = (IF apiPc = "backoff" THEN req.sent ELSE req.sent - 1)

C6_Witness ==
    /\ apiPc = "settled"
    /\ Len(log) = 3
    /\ AllNoResponse
    /\ delays = <<1000, 2000>>
    /\ now >= 3000
    /\ result.status = 0

\* C7: a transport attempt answered with HTTP 401, first attempt or retry,
\* is the request's last one, and when the error (status 401) reaches the
\* caller the credential is absent from memory and from persistent storage.
C7_UnauthorizedClearsCredential ==
    \A i \in 1 .. Len(log) :
        (log[i].out = "http" /\ log[i].status = 401) =>
            /\ i = Len(log)
            /\ req.sent = i
            /\ apiPc = "settled"
            /\ result.kind = "error"
            /\ result.status = 401
            /\ authToken = NoToken
            /\ storedToken = NoToken

C7_Witness ==
    /\ apiPc = "settled"
    /\ Len(log) = 2
    /\ log[1].out = "noresponse"
    /\ log[2].status = 401
    /\ log[2].auth = "T1"
    /\ authToken = NoToken
    /\ storedToken = NoToken

\* C8: a transport attempt answered with an HTTP error status is never
\* retried: it is the request's last attempt, and the request fails with an
\* error carrying that status and the message of the response body.
C8_HttpErrorNotRetried ==
    \A i \in 1 .. Len(log) :
        log[i].out = "http" =>
            /\ i = Len(log)
            /\ req.sent = i
            /\ apiPc = "settled"
            /\ result.kind = "error"
            /\ result.status = log[i].status
            /\ (Truthy(log[i].body.message) => result.message = log[i].body.message)
            /\ (~Truthy(log[i].body.message) /\ Truthy(log[i].body.error) =>
                   result.message = log[i].body.error)

C8_Witness ==
    /\ apiPc = "settled"
    /\ Len(log) = 1
    /\ log[1].status = 500
    /\ log[1].body.message = "M1"
    /\ req.sent = 1
    /\ result.status = 500
    /\ result.message = "M1"

(***************************************************************************)
(* Properties of the response cache (SpecCache).                           *)
(***************************************************************************)
\* C9: a cacheable GET that finds an entry of its key no older than the TTL
\* returns the stored payload without a transport request, whatever the
\* payload is; one that finds an entry older than the TTL goes to the
\* transport and the old entry is gone.
C9_CachedGetServedFromCache ==
    (lastOp.op = "get" /\ req.useCache /\ req.hit.found) =>
        IF ~req.hit.expired
        THEN /\ req.sent = 0
             /\ apiPc = "settled"
             /\ result.kind = "ok"
             /\ result.value = req.hit.data
        ELSE req.sent = 1

\* C10: invalidateCache(url, params) removes the entry of that key, whatever
\* its age, and leaves every other entry as it was; clearCache() removes
\* every entry; a cacheable GET for a key without entry finds nothing and
\* goes to the transport, and an entry only comes back by the save of a
\* successful cacheable GET for its key.
C10_InvalidateAndClear ==
    [][ /\ lastOp'.op = "invalidate" =>
               /\ lastOp'.key \notin DOMAIN cache'
               /\ DOMAIN cache' = DOMAIN cache \ {lastOp'.key}
               /\ \A k \in DOMAIN cache' : cache'[k] = cache[k]
        /\ lastOp'.op = "clear" => DOMAIN cache' = {}
        /\ (requests' = requests + 1 /\ req'.useCache
              /\ getCacheKey(req'.url, req'.params) \notin DOMAIN cache) =>
               /\ ~req'.hit.found
               /\ apiPc' = "inflight"
               /\ req'.sent = 1
        /\ \A k \in CacheKeys :
               (k \notin DOMAIN cache /\ k \in DOMAIN cache') =>
                   /\ apiPc = "inflight"
                   /\ req.useCache
                   /\ getCacheKey(req.url, req.params) = k
                   /\ result'.kind = "ok"
      ]_vars

C10_Witness ==
    /\ lastOp.op = "invalidate"
    /\ lastOp.existed
    /\ lastOp.key \notin DOMAIN cache
    /\ \E k \in DOMAIN cache : now - cache[k].timestamp > cacheTTL

(***************************************************************************)
(* Frame of the response cache (SpecVerbs).                                *)
(***************************************************************************)
\* C11 as stated: the cache is written only by the success of a GET made
\* with useCache = true, and a payload is returned from the cache only by
\* such a GET; in every other step (POST, PUT, DELETE, uploadFile, a GET
\* with useCache = false, a GET that fails) every cache entry stays as it
\* was.
C11_CacheFrame ==
    [][ /\ cache' # cache =>
               /\ apiPc = "inflight"
               /\ req.method = "get"
               /\ req.useCache
               /\ result'.kind = "ok"
        /\ result'.fromCache => (req'.method = "get" /\ req'.useCache)
      ]_vars

\* C11 amended: the cache is changed only by a GET made with useCache =
\* true, in two ways: its success stores the payload under its key, and its
\* lookup deletes the entry of its own key when that entry has expired,
\* whether the GET then succeeds or fails; nothing else changes an entry,
\* and a payload is returned from the cache only by such a GET that found an
\* unexpired entry of its key.
C11_CacheFrameExceptExpiry ==
    [][ /\ cache' # cache =>
               \/ /\ apiPc = "inflight"
                  /\ req.method = "get"
                  /\ req.useCache
                  /\ result'.kind = "ok"
                  /\ cache' = saveToCache(cache, getCacheKey(req.url, req.params),
                                          result'.value, now)
               \/ /\ requests' = requests + 1
                  /\ req'.method = "get"
                  /\ req'.useCache
                  /\ req'.hit.found
                  /\ req'.hit.expired
                  /\ cache' = CacheDelete(cache, getCacheKey(req'.url, req'.params))
        /\ result'.fromCache =>
               /\ req'.method = "get"
               /\ req'.useCache
               /\ req'.hit.found
               /\ ~req'.hit.expired
               /\ result'.value = req'.hit.data
               /\ cache' = cache
      ]_vars

\* A POST has succeeded with a payload other than the one the cache holds.
C11_Witness ==
    /\ lastOp.op = "post"
    /\ apiPc = "settled"
    /\ result = Success("P2", FALSE)
    /\ getCacheKey("/a", NoParams) \in DOMAIN cache
    /\ cache[getCacheKey("/a", NoParams)].data = "P1"
    /\ req.url = "/a"

(***************************************************************************)
(* Properties of the token store (SpecTok).                                *)
(***************************************************************************)
\* C12: once every setAuthToken, clearAuthToken (the one of a 401 included)
\* and interceptor load that was started has resolved, the token in memory
\* and the persisted token agree: both absent or both the same token.
C12_MemoryAgreesWithStorage ==
    (authCalls >= 1 /\ tasks = <<>>) => authToken = storedToken

\* C15: after setAuthToken / clearAuthToken calls none of which overlapped
\* another call, hasAuthToken() is true iff the last call was setAuthToken
\* and the token in memory equals the persisted one; so the state after
\* setAuthToken(t) is the same whatever preceded it, a first setAuthToken(t)
\* included.
C15_LastCallDecides ==
    (~overlap /\ tasks = <<>>) =>
        /\ lastOp.op = "setAuthToken" =>
               /\ hasAuthToken(storedToken)
               /\ authToken = lastOp.key[1]
               /\ storedToken = lastOp.key[1]
        /\ lastOp.op = "clearAuthToken" =>
               /\ ~hasAuthToken(storedToken)
               /\ authToken = NoToken
               /\ storedToken = NoToken

\* Three calls one after the other, the last two setAuthToken("T2").
C15_Witness ==
    /\ ~overlap
    /\ lastOp.repeated
    /\ tasks = <<>>
    /\ authCalls = 3
    /\ lastOp.op = "setAuthToken"
    /\ authToken = "T2"
    /\ storedToken = "T2"

(***************************************************************************)
(* Properties of AuthProvider and the token store (SpecAuth).              *)
(***************************************************************************)
Quiescent == tasks = <<>>

\* C14: whenever no auth operation is in flight, no stored token implies
\* isAuthenticated = false, also after a 401 answer to some request has
\* cleared the credential.
C14_NoTokenNotAuthenticated ==
    (Quiescent /\ storedToken = NoToken) => ~isAuthenticated

\* C13: login, logout and the clear of a 401 leave the token store and
\* AuthProvider as some one-after-the-other order would: once all have
\* resolved the app is neither logged out (isAuthenticated false, user
\* null) with a token stored, nor logged in with no token stored.
C13_LoginLogoutSerialized ==
    Quiescent =>
        /\ ~(~isAuthenticated /\ user = JsNull /\ storedToken # NoToken)
        /\ ~(isAuthenticated /\ storedToken = NoToken)

(***************************************************************************)
(* Properties of polls that go through the ApiClient (SpecLink).           *)
(***************************************************************************)
TransportRequests == sentByPolls + req.sent
Elapsed == now - pollStart

\* C16: a poll uses one attempt of the budget however many times its
\* transport request is retried and however it ends; an invocation issues
\* at most maxAttempts polls and at most 3 x maxAttempts transport requests.
C16_RetriedPollIsOneAttempt ==
    /\ attempts = pollCalls
    /\ pollCalls <= maxAttempts
    /\ (pc = "polling" => pollCalls = Len(polls) + 1)
    /\ (pc # "polling" => pollCalls = Len(polls))
    /\ req.sent <= 3
    /\ TransportRequests <= 3 * maxAttempts

\* Two polls of three transport requests each: the first fails after its
\* retries, the second succeeds on its second retry.
C16_Witness ==
    /\ pc = "done"
    /\ maxAttempts = 2
    /\ pollCalls = 2
    /\ polls[1].kind = "throw"
    /\ polls[1].error = NetworkFailureMessage
    /\ outcome = Returned("R1")
    /\ TransportRequests = 6

\* C19 as stated: from the start of a poll to its result or error at most
\* one transport timeout (30 s) elapses.
C19_PollWithinTimeout ==
    pc = "polling" => Elapsed <= TransportTimeout

\* C19 amended: the timeout bounds each transport attempt; a poll none of
\* whose attempts was retried takes at most one timeout, and a poll takes
\* at most three timeouts plus the two backoff delays (93 s).
C19_PollWithinRetries ==
    pc = "polling" =>
        /\ now - req.sentAt <= TransportTimeout
        /\ (req.retryCount = 0 => Elapsed <= TransportTimeout)
        /\ Elapsed <= (req.retryCount + 1) * TransportTimeout
                       + (IF req.retryCount >= 1 THEN 1000 ELSE 0)
                       + (IF req.retryCount >= 2 THEN 2000 ELSE 0)
        /\ Elapsed <= 3 * TransportTimeout + 3000

\* A poll that timed out three times: its error arrives after 93 s.
C19_Witness ==
    /\ pc = "polling"
    /\ apiPc = "settled"
    /\ result = ApiError(NetworkFailureMessage, 0)
    /\ Elapsed = 93000

(***************************************************************************)
(* Properties of an abandoned invocation (SpecScreen).                     *)
(***************************************************************************)
\* C20: once the caller has abandoned the invocation, nothing more is done
\* for it: no poll is issued, no interval wait is started and onUpdate is
\* not invoked.
C20_NoWorkAfterAbandon ==
    [][abandoned => /\ pollCalls' = pollCalls
                    /\ waits' = waits
                    /\ updates' = updates]_vars

(***************************************************************************)
(* Normalization of 2xx responses (SpecApi).                               *)
(***************************************************************************)
LastBody == log[Len(log)].body

\* C21: a request answered 2xx settles with the payload in both body forms:
\* an envelope {success: true, data: T} gives T, a body that is the payload
\* itself gives that payload; an envelope with success = false gives an error
\* carrying the envelope's message.
C21_BothBodyFormsNormalized ==
    (apiPc = "settled" /\ log # <<>> /\ LastBody.out = "success") =>
        IF IsDirectBody(LastBody)
        THEN result.kind = "ok" /\ result.value = LastBody.payload
        ELSE IF LastBody.success = "true" /\ LastBody.data # Undefined
        THEN result.kind = "ok" /\ result.value = LastBody.data
        ELSE LastBody.success = JsFalse =>
                 /\ result.kind = "error"
                 /\ result.message = ErrorMessage(LastBody)

(***************************************************************************)
(* Cache keys (SpecKeys).                                                  *)
(***************************************************************************)
\* The name/value pairs of a parameter object, whatever their order.
PairsOf(params) ==
    IF params = NoParams THEN {} ELSE {params[i] : i \in DOMAIN params}

\* Entries a request for (url, params) shares: same endpoint, same pairs.
EntriesOf(c, url, params) ==
    {k \in DOMAIN c : k[1] = url /\ PairsOf(k[2]) = PairsOf(params)}

\* C22: a cacheable GET finds the entry stored by an earlier cacheable GET to
\* the same endpoint with the same name/value pairs, in whatever order the
\* pairs were supplied and with absent parameters equal to empty ones: it is
\* served from that entry without a transport request, and the cache never
\* holds two entries for one endpoint and one set of pairs; a payload served
\* from the cache comes from an entry of the same endpoint and the same pairs.
C22_KeyIgnoresParameterOrder ==
    [][ (requests' = requests + 1 /\ req'.method = "get" /\ req'.useCache) =>
            /\ \A k \in EntriesOf(cache, req'.url, req'.params) :
                   now - cache[k].timestamp <= cacheTTL =>
                       /\ result' = Success(cache[k].data, TRUE)
                       /\ req'.sent = 0
            /\ result'.fromCache =>
                   \E k \in EntriesOf(cache, req'.url, req'.params) :
                       result'.value = cache[k].data
      ]_vars

(***************************************************************************)
(* Local validation of uploads (SpecUpload).                               *)
(***************************************************************************)
\* What both upload calls do with an input they reject.
RejectedLocally ==
    /\ apiPc' = "settled"
    /\ result'.kind = "error"
    /\ req'.sent = 0
    /\ log' = <<>>

\* C23: uploadImage with a file that does not exist or whose extension is
\* not a supported type, and uploadFile with a file that does not exist or
\* is larger than 10 MB, fail with an error while no transport request has
\* been issued.
C23_RejectedBeforeNetwork ==
    [][ /\ \A fileType \in FileTypes, imageExists \in BOOLEAN, fileInfo \in FileInfos :
               (/\ ~imageExists \/ fileType \notin {"jpg", "jpeg", "png", "heic"}
                /\ UploadImage(fileType, imageExists, fileInfo))
               => RejectedLocally
        /\ \A url \in VerbUrls, fileInfo \in FileInfos :
               (/\ ~fileInfo.exists \/ fileInfo.size > 10 * 1024 * 1024
                /\ UploadFile(url, fileInfo))
               => RejectedLocally
      ]_vars

\* An uploadImage of a .gif file that exists has been rejected.
C23_Witness ==
    /\ lastOp.op = "uploadImage"
    /\ apiPc = "settled"
    /\ result = PlainError(UnsupportedTypeMessage)
    /\ req.sent = 0
    /\ log = <<>>

(***************************************************************************)
(* Properties of favorites and history (SpecLearn).                        *)
(***************************************************************************)
\* C24: toggleFavorite and addToHistory return true whenever the local
\* storage update succeeded, also when the request to the server failed.
C24_LocalSuccessIsSuccess ==
    (/\ call.op \in {"toggleFavorite", "addToHistory"}
     /\ call.pc = "done"
     /\ call.storageSuccess)
    => call.ret = "true"

\* The question ids of a history, in order.
IdsOf(items) == [i \in DOMAIN items |-> items[i].questionId]

NoDuplicates(seq) == Cardinality({seq[i] : i \in DOMAIN seq}) = Len(seq)

\* C25: the stored history holds at most 50 items and each questionId at
\* most once, and its first item is the most recently added question: every
\* change of the stored history is the write of an addToHistory call and puts
\* that call's question first, and the history stays as it is until the next
\* such write.
C25_HistoryBoundedUniqueNewestFirst ==
    [][ /\ Len(history') <= 50
        /\ NoDuplicates(IdsOf(history'))
        /\ history' # history =>
               /\ call.op = "addToHistory"
               /\ call.pc = "writing"
               /\ history'[1].questionId = call.arg
               /\ call'.storageSuccess
        /\ (call'.op = "addToHistory" /\ call'.storageSuccess) =>
               history'[1].questionId = call'.arg
      ]_vars

\* A question has been added to a full history: it is first, the oldest
\* item is gone, and 50 items are stored.
C25_Witness ==
    /\ call.op = "addToHistory"
    /\ call.pc = "done"
    /\ call.arg = 51
    /\ call.storageSuccess
    /\ Len(history) = 50
    /\ history[1].questionId = 51
    /\ history[50].questionId = 2

(***************************************************************************)
(* The response cache across sessions (SpecSession).                       *)
(***************************************************************************)
\* A step that changes the credential: setAuthToken, clearAuthToken, or the
\* clear made on a 401 answer.
CredentialStep ==
    \/ /\ lastOp'.op \in {"setAuthToken", "clearAuthToken"}
       /\ apiPc' = "idle"
       /\ requests' = requests
       /\ ticks' = ticks
    \/ /\ apiPc = "inflight"
       /\ result'.kind = "error"
       /\ result'.status = 401

\* C26: setAuthToken and clearAuthToken (logout, login, the clear of a 401)
\* leave every cache entry unchanged, and a cacheable GET that finds an entry
\* of its key no older than the TTL returns that entry's payload without a
\* transport request, whatever happened to the credential since the entry
\* was stored.
C26_CacheSurvivesSessionChange ==
    [][ /\ CredentialStep => cache' = cache
        /\ (/\ requests' = requests + 1
            /\ req'.useCache
            /\ getCacheKey(req'.url, req'.params) \in DOMAIN cache
            /\ now - cache[getCacheKey(req'.url, req'.params)].timestamp <= cacheTTL)
           => /\ result' = Success(cache[getCacheKey(req'.url, req'.params)].data, TRUE)
              /\ req'.sent = 0
              /\ cache' = cache
      ]_vars

(***************************************************************************)
(* Properties of AuthProvider while the app settles (SpecStartup,          *)
(* SpecSettles).                                                           *)
(***************************************************************************)
\* initAuth's profile request is on its way (in the interceptor or sent).
ProfileRequested ==
    \E i \in 1 .. Len(tasks) :
        tasks[i].caller = "initAuth" /\ tasks[i].step \in {"interceptor", "request"}

\* initAuth's profile request has failed and initAuth has not settled yet.
FailedStartup ==
    \E i \in 1 .. Len(tasks) :
        /\ tasks[i].caller \in {"initAuth", "getCurrentUser"}
        /\ tasks[i].step \in {"unauthorized", "clearAuthToken"}

\* A login or register that overlapped has had its token stored.
TokenStoredSince ==
    \E i \in 1 .. Len(tasks) :
        /\ tasks[i].caller \in {"login", "register"}
        /\ tasks[i].step = "setAuthToken"
        /\ tasks[i].state = "applied"

\* C27: at startup with a token stored, a profile request that fails, with
\* a 401 or with any other failure, makes initAuth call logout: the token is
\* dropped from memory at once, and when initAuth settles the stored token
\* has been removed, isAuthenticated is false and isLoading is false.
C27_FailedStartupLogsOut ==
    [][ /\ (ProfileRequested /\ ~ProfileRequested') =>
               \/ isAuthenticated' /\ user' = CurrentUser /\ ~isLoading'
               \/ FailedStartup' /\ authToken' = NoToken
        /\ (FailedStartup /\ ~FailedStartup') =>
               /\ ~isAuthenticated'
               /\ ~isLoading'
               /\ storedToken' = NoToken \/ TokenStoredSince'
      ]_vars

\* A startup with a stored token has failed, nothing else was called, and
\* everything has resolved.
C27_Witness ==
    /\ authCalls = 0
    /\ tasks = <<>>
    /\ lastOp = CalledClearAuthToken
    /\ storedToken = NoToken
    /\ authToken = NoToken
    /\ ~isAuthenticated
    /\ ~isLoading

Authenticators == {"login", "register"}
Loaders == {"initAuth", "getCurrentUser", "logout", "updateProfile"}

PendingOf(callers) == {i \in 1 .. Len(tasks) : tasks[i].caller \in callers}

\* Task i of this state is gone in the next one.
Removed(i) ==
    Cardinality({j \in 1 .. Len(tasks') : tasks'[j] = tasks[i]})
        < Cardinality({j \in 1 .. Len(tasks) : tasks[j] = tasks[i]})

\* C28: every login / register eventually settles and sets isAuthenticating
\* to false as it does; every initAuth / logout / updateProfile eventually
\* settles and sets isLoading to false as it does, on the success path and
\* on the failure path; a login or register that failed leaves error
\* non-null and isAuthenticated false and returns false.
C28_FlagsAreReset ==
    /\ (PendingOf(Authenticators) # {}) ~> (PendingOf(Authenticators) = {})
    /\ (PendingOf(Loaders) # {}) ~> (PendingOf(Loaders) = {})
    /\ isAuthenticating ~> ~isAuthenticating
    /\ isLoading ~> ~isLoading
    /\ [][ /\ Cardinality(PendingOf(Authenticators)')
                  < Cardinality(PendingOf(Authenticators)) =>
                  /\ ~isAuthenticating'
                  /\ \A i \in PendingOf(Authenticators) :
                         Removed(i) =>
                             IF tasks[i].step = "setAuthToken"
                             THEN returned' = Returns(tasks[i].caller, "true")
                             ELSE /\ returned' = Returns(tasks[i].caller, JsFalse)
                                  /\ authError' # JsNull
                                  /\ ~isAuthenticated'
           /\ Cardinality(PendingOf(Loaders)')
                  < Cardinality(PendingOf(Loaders)) => ~isLoading'
         ]_vars

\* A register has failed and everything has resolved.
C28_Witness ==
    /\ tasks = <<>>
    /\ returned = Returns("register", JsFalse)
    /\ authError = RequestFailedMessage
    /\ ~isAuthenticated
    /\ ~isAuthenticating
    /\ ~isLoading

\* ---------------------------------------------------------------------
\* C29: pollAnalysisResult / pollOCRResult called with maxAttempts <= 0
\* issue no poll call and no onUpdate callback, wait for nothing, and
\* their first and only step is the throw of the timeout error.
C29_NoPollWithoutAttempts ==
    maxAttempts <= 0 =>
        /\ pollCalls = 0
        /\ polls = <<>>
        /\ updates = <<>>
        /\ waits = <<>>
        /\ attempts = 0
        /\ pc \in {"loop", "done"}
        /\ (pc = "loop" => outcome = NoOutcome)
        /\ (pc = "done" => outcome = Threw(TimeoutMessage))

C29_Witness ==
    /\ maxAttempts = 0
    /\ hasOnUpdate
    /\ pc = "done"
    /\ pollCalls = 0
    /\ updates = <<>>
    /\ outcome = Threw(TimeoutMessage)

\* ---------------------------------------------------------------------
\* C30: in non-mock mode every step of a syncActivities call leaves the
\* stored activity log alone; what it posts is exactly the stored activities
\* whose timestamp is strictly greater than the stored last-sync time, in
\* their stored order, and it posts nothing only when there is none; the
\* last-sync item is written only after the POST was accepted, with the
\* time of that moment; and a failed POST ends the call with false and
\* both items as they were.
LatestTime == FirstCallTime + 2 * MaxLocalCalls

\* The time the stored last-sync item denotes; no item is the time 0.
StoredLastSyncTime ==
    IF lastSync = NoItem THEN 0
    ELSE CHOOSE n \in 0 .. LatestTime : DecimalString(n) = lastSync

StoredNewActivities ==
    SelectSeq(activities, LAMBDA a : a.timestamp > StoredLastSyncTime)

SyncInProgress ==
    /\ ~useMock
    /\ call.op = "syncActivities"
    /\ call.pc # "done"

C30_SyncSendsNewOnly ==
    [][SyncInProgress =>
        /\ activities' = activities
        /\ (call'.pc = "posting" =>
               /\ call'.posted = StoredNewActivities
               /\ call'.posted # <<>>)
        /\ ((call.pc = "readingSync" /\ call'.ret = "true") =>
               StoredNewActivities = <<>>)
        /\ (call'.pc = "writing" =>
               /\ call.pc = "posting"
               /\ call'.answer = "ok")
        /\ (lastSync' # lastSync =>
               /\ call.pc = "writing"
               /\ call.answer = "ok"
               /\ call'.ret = "true"
               /\ lastSync' = DecimalString(wall))
        /\ ((call.pc = "posting" /\ call'.answer = "failed") =>
               /\ call'.pc = "done"
               /\ call'.ret = JsFalse
               /\ lastSync' = lastSync)]_vars

\* A sync that posted the one new activity of two stored ones, was refused,
\* and returned false with the last-sync item as it was.
C30_Witness ==
    /\ ~useMock
    /\ call.op = "syncActivities"
    /\ call.pc = "done"
    /\ call.answer = "failed"
    /\ call.ret = JsFalse
    /\ activities = <<Viewed(8), Viewed(9)>>
    /\ call.posted = <<Viewed(9)>>
    /\ lastSync = DecimalString(8)

====
